---- MODULE Spec2Model ----
(***************************************************************************)
(* Traffic-shaping layer of rnbwsmk-ai: the rate limiter                   *)
(* (src/src/server/services/RateLimitService.ts) with its two stores, the  *)
(* durable per-partition storage and the process-wide memoryCache map, and *)
(* the HTTP boundary that calls it (src/unnamed/part_006), the result      *)
(* cache of VectorizeService (src/unnamed/part_007) and the gateway cache  *)
(* key of AIService (src/src/server/index.ts).                             *)
(*                                                                         *)
(* Times are milliseconds, as Date.now() gives them.  One consume call     *)
(* reads the clock once: the clock moves between calls (AdvanceClock).     *)
(***************************************************************************)
EXTENDS Integers, Sequences, FiniteSets, TLC

VARIABLES
    now,          \* Date.now()
    ticks,        \* how many times the clock has been advanced
    service,      \* which RateLimitService is driven: constructed with
                  \* storage ("durable"), without ("memory"), or one of each
    options,      \* the RateLimitOptions the caller passes to consume
    storage,      \* DurableObjectStorage: key -> RateLimitEntry
    memoryCache,  \* the process-wide Map, in insertion order
    last,         \* history: the last consume call, per store
    win,          \* history: per store and identifier, the window of results
    capEvicted,   \* history: the size cap of memoryCache has removed a key
    http,         \* the last HTTP request and its response
    served,       \* how many HTTP requests have been handled
    vectorCache,  \* globalThis.__RNBWSMK_VECTOR_CACHE__, in insertion order
    vecLast,      \* history: the last call on a VectorizeService
    vecRun,       \* history: the keys set one after the other since the
                  \* vector cache was empty
    inFlight,     \* the query calls that missed and await the backend
    keyCalls,     \* two argument lists of query and the cache keys built
                  \* for them so far
    gateway,      \* two streamViaGateway calls and the requests sent so far
    objects,      \* the RateLimitEntry objects of the heap, by reference
    memoryObjects, \* memoryCache as a Map of references into objects
    tasks,        \* the consume calls started on the service without
                  \* storage, each with its position and its local `entry`
    session,      \* UserSession: the position of onMessage in the message it
                  \* handles, what it has called and what it has broadcast
    effect,       \* one run of the effect of useWebSocket: its locals, the
                  \* sockets it has created and its pending timer
    room          \* AIChatRoom: the position of sendAIResponse in the
                  \* message it answers and what it has broadcast

limiterVars == <<service, options, storage, last, win, capEvicted>>
httpVars == <<http, served>>
vectorVars == <<vectorCache, vecLast, vecRun, inFlight>>
gatewayVars == <<gateway>>
keyVars == <<keyCalls>>
taskVars == <<objects, memoryObjects, tasks>>
actorVars == <<session, effect, room>>
vars == <<now, ticks, service, options, storage, memoryCache, last, win, capEvicted, http, served,
          vectorCache, vecLast, vecRun, inFlight, keyCalls, gateway,
          objects, memoryObjects, tasks, session, effect, room>>

----------------------------------------------------------------------------
(* Bounds of the model.                                                    *)

\* The clock is advanced at most this many times in a behaviour.
MaxTicks == 5

\* Stands for the 512 of RateLimitService.ts:136, scaled down so that the
\* size cap is reached with the identifiers of the model.
MaxMemoryEntries == 1

\* History counters of calls in a window stop counting at limit + CallSlack.
CallSlack == 2

\* HTTP requests handled in a behaviour of SpecHttp, and how many times its
\* clock is advanced.
MaxServed == 4

MaxHttpTicks == 1

\* How many times the clock is advanced in a behaviour of SpecCache.
MaxCacheTicks == 2

\* How many consume calls are started in a behaviour of SpecTasks, and how
\* many times its clock is advanced.
MaxCalls == 3

MaxTaskTicks == 2

\* The most messages of a chat sent through the gateway.
MaxMessages == 2

\* How many times the clock is advanced in a behaviour of SpecSession.
MaxSessionTicks == 2

\* In SpecSocket: how many WebSockets one run of the effect creates.
MaxSockets == 4

\* In SpecRoom: how many message.new the room handles, and how many chunks
\* the stream of one response yields.
MaxResponses == 2

MaxChunks == 2

\* In SpecLive: how many times the clock advances.
MaxLiveTicks == 7

\* In SpecCacheAwait: how many query calls await the backend at once, and
\* how many times the clock is advanced.
MaxInFlight == 1

MaxAwaitTicks == 1

----------------------------------------------------------------------------
(* Values.                                                                 *)

\* An optional field that is absent (blockUntil?, retryAfter?, blockDurationMs?).
Undefined == -1

\* getEntry's null.
Null == [count |-> Undefined, reset |-> Undefined, blockUntil |-> Undefined]

\* Math.ceil(a / b) for integers a and b > 0 (a may be negative).
Ceil(a, b) == -((-a) \div b)

\* Math.max
Max(a, b) == IF a >= b THEN a ELSE b

Min(a, b) == IF a <= b THEN a ELSE b

\* JavaScript truthiness of an optional number: undefined and 0 are falsy.
Truthy(x) == x # Undefined /\ x # 0

\* The identifiers consume is called with, and key = `rl:${identifier}`.
Identifiers == {"test-window", "test-block"}

Key(identifier) == <<"rl", identifier>>

\* The option records consume is called with: those of the service's tests
\* (the third with a block of two windows instead of five), an odd
\* window (the default penalty is rounded up), a block shorter than the
\* window that is no multiple of a second, and a limit of 0.
OptionSet ==
    { [limit |-> 3, windowMs |-> 1000, blockDurationMs |-> Undefined],
      [limit |-> 2, windowMs |-> 1000, blockDurationMs |-> Undefined],
      [limit |-> 1, windowMs |-> 1000, blockDurationMs |-> 2000],
      [limit |-> 1, windowMs |-> 1001, blockDurationMs |-> Undefined],
      [limit |-> 2, windowMs |-> 2000, blockDurationMs |-> 700],
      [limit |-> 0, windowMs |-> 1000, blockDurationMs |-> Undefined] }

\* Steps by which the clock advances between calls.
ClockSteps == {500}

----------------------------------------------------------------------------
(* Map<string, RateLimitEntry>: a sequence of [key, value] in insertion    *)
(* order.                                                                  *)

MapKeys(m) == {m[i].key : i \in 1..Len(m)}

MapHas(m, k) == k \in MapKeys(m)

MapIndex(m, k) == CHOOSE i \in 1..Len(m) : m[i].key = k

\* Map.get: undefined becomes Null through `|| null`.
MapGet(m, k) == IF MapHas(m, k) THEN m[MapIndex(m, k)].value ELSE Null

\* Map.set: an existing key keeps its place, a new key goes last.
MapSet(m, k, v) ==
    IF MapHas(m, k)
    THEN [m EXCEPT ![MapIndex(m, k)].value = v]
    ELSE Append(m, [key |-> k, value |-> v])

\* Map.delete
MapDelete(m, k) == SelectSeq(m, LAMBDA e : e.key # k)

----------------------------------------------------------------------------
(* RateLimitService.getEntry and setEntry, for each store.                 *)

\* A getEntry that forgets the block exemption of line 110.
getEntryDurableNoBlock(store, key, t) ==
    IF key \notin DOMAIN store THEN Null
    ELSE IF store[key].reset < t THEN Null ELSE store[key]

\* getEntry with this.storage set (lines 107-114); t is Date.now().
getEntryDurable(store, key, t) ==
    IF key \notin DOMAIN store THEN Null
    ELSE LET stored == store[key] IN
         IF stored.reset < t /\ ~(Truthy(stored.blockUntil) /\ stored.blockUntil > t)
         THEN Null
         ELSE stored

\* A getEntry that forgets the block exemption of lines 118-120.
getEntryMemoryNoBlock(cache, key, t) ==
    LET entry == MapGet(cache, key) IN
    IF entry # Null /\ entry.reset < t
    THEN [entry |-> Null, cache |-> MapDelete(cache, key)]
    ELSE [entry |-> entry, cache |-> cache]

\* getEntry on memoryCache (lines 116-124): the entry and the map after it.
getEntryMemory(cache, key, t) ==
    LET entry == MapGet(cache, key) IN
    IF entry # Null /\ entry.reset < t
    THEN IF Truthy(entry.blockUntil) /\ entry.blockUntil > t
         THEN [entry |-> entry, cache |-> cache]
         ELSE [entry |-> Null, cache |-> MapDelete(cache, key)]
    ELSE [entry |-> entry, cache |-> cache]

\* setEntry with this.storage set (lines 128-131).
setEntryDurable(store, key, entry) ==
    [k \in DOMAIN store \cup {key} |-> IF k = key THEN entry ELSE store[k]]

\* A setEntry whose size cap removes the newest key.
setEntryMemoryEvictNewest(cache, key, entry) ==
    LET written == MapSet(cache, key, entry) IN
    IF Len(written) > MaxMemoryEntries
    THEN MapDelete(written, written[Len(written)].key)
    ELSE written

\* setEntry on memoryCache (lines 133-141), with its size cap.
setEntryMemory(cache, key, entry) ==
    LET written == MapSet(cache, key, entry) IN
    IF Len(written) > MaxMemoryEntries
    THEN MapDelete(written, written[1].key)
    ELSE written

----------------------------------------------------------------------------
(* RateLimitService.consume (lines 53-104).                                *)

\* Line 59: the entry holds a block that has not ended at t.
BlockActiveAtOrBefore(found, t) ==
    found # Null /\ Truthy(found.blockUntil) /\ t <= found.blockUntil

BlockActive(found, t) ==
    found # Null /\ Truthy(found.blockUntil) /\ t < found.blockUntil

\* Line 60: the seconds until the block ends, rounded up.
RetryAfterFloor(blockUntil, t) == (blockUntil - t) \div 1000

RetryAfter(blockUntil, t) == Ceil(blockUntil - t, 1000)

\* Line 71: no entry, or its window is over at t.
WindowOverAfter(found, t) == found = Null \/ t > found.reset

WindowOver(found, t) == found = Null \/ t >= found.reset

\* Lines 72-75: the entry of a fresh window.
FreshEntry(t, opts) ==
    [count |-> 0, reset |-> t + opts.windowMs, blockUntil |-> Undefined]

\* Line 80: the increment went past the limit.
OverLimitAt(count, opts) == count >= opts.limit

\* A limit check that lets one more call through.
OverLimitPlusOne(count, opts) == count > opts.limit + 1

OverLimit(count, opts) == count > opts.limit

\* Line 82: the penalty.
PenaltyHalfWindow(opts) == Ceil(opts.windowMs, 2)

Penalty(opts) ==
    IF opts.blockDurationMs # Undefined
    THEN opts.blockDurationMs
    ELSE Ceil(opts.windowMs, 2)

\* Lines 81-83: the entry written when the limit is exceeded at t.
BlockedEntryUnclamped(counted, t, opts) ==
    [counted EXCEPT !.blockUntil = t + Penalty(opts)]

\* A denial that starts the window again.
BlockedEntrySliding(counted, t, opts) ==
    [counted EXCEPT !.count = opts.limit, !.blockUntil = t + Penalty(opts),
                    !.reset = t + opts.windowMs]

BlockedEntry(counted, t, opts) ==
    [counted EXCEPT !.count = opts.limit, !.blockUntil = t + Penalty(opts)]

\* Line 101
Remaining(count, opts) == Max(opts.limit - count, 0)

\* A consume that starts the penalty again when it denies a call during a
\* block.
consumeEntryExtendingBlock(found, t, opts) ==
    IF BlockActive(found, t)
    THEN [write  |-> TRUE,
          entry  |-> [found EXCEPT !.blockUntil = t + Penalty(opts)],
          result |-> [allowed |-> FALSE, blocked |-> TRUE, limit |-> opts.limit,
                      remaining |-> 0, reset |-> found.reset,
                      retryAfter |-> RetryAfter(found.blockUntil, t)]]
    ELSE
      LET fresh == IF WindowOver(found, t) THEN FreshEntry(t, opts) ELSE found
          counted == [fresh EXCEPT !.count = @ + 1]
      IN IF OverLimit(counted.count, opts)
         THEN [write  |-> TRUE,
               entry  |-> BlockedEntry(counted, t, opts),
               result |-> [allowed |-> FALSE, blocked |-> TRUE, limit |-> opts.limit,
                           remaining |-> 0, reset |-> counted.reset,
                           retryAfter |-> Ceil(Penalty(opts), 1000)]]
         ELSE [write  |-> TRUE,
               entry  |-> counted,
               result |-> [allowed |-> TRUE, blocked |-> FALSE, limit |-> opts.limit,
                           remaining |-> Remaining(counted.count, opts),
                           reset |-> counted.reset, retryAfter |-> Undefined]]

\* consume after getEntry has answered `found`: the result, whether setEntry
\* is called, and the entry it is called with.  An absent `blocked` is FALSE.
consumeEntry(found, t, opts) ==
    IF BlockActive(found, t)
    THEN [write  |-> FALSE,
          entry  |-> found,
          result |-> [allowed |-> FALSE, blocked |-> TRUE, limit |-> opts.limit,
                      remaining |-> 0, reset |-> found.reset,
                      retryAfter |-> RetryAfter(found.blockUntil, t)]]
    ELSE
      LET fresh == IF WindowOver(found, t) THEN FreshEntry(t, opts) ELSE found
          counted == [fresh EXCEPT !.count = @ + 1]
      IN IF OverLimit(counted.count, opts)
         THEN [write  |-> TRUE,
               entry  |-> BlockedEntry(counted, t, opts),
               result |-> [allowed |-> FALSE, blocked |-> TRUE, limit |-> opts.limit,
                           remaining |-> 0, reset |-> counted.reset,
                           retryAfter |-> Ceil(Penalty(opts), 1000)]]
         ELSE [write  |-> TRUE,
               entry  |-> counted,
               result |-> [allowed |-> TRUE, blocked |-> FALSE, limit |-> opts.limit,
                           remaining |-> Remaining(counted.count, opts),
                           reset |-> counted.reset, retryAfter |-> Undefined]]

\* consume on a service constructed with storage: the result and the store.
consumeDurable(store, identifier, t, opts) ==
    LET key == Key(identifier)
        c   == consumeEntry(getEntryDurable(store, key, t), t, opts)
    IN [result |-> c.result,
        store  |-> IF c.write THEN setEntryDurable(store, key, c.entry) ELSE store]

\* consume on a service constructed without storage.
consumeMemory(cache, identifier, t, opts) ==
    LET key == Key(identifier)
        g   == getEntryMemory(cache, key, t)
        c   == consumeEntry(g.entry, t, opts)
    IN [result |-> c.result,
        cache  |-> IF c.write THEN setEntryMemory(g.cache, key, c.entry) ELSE g.cache]

----------------------------------------------------------------------------
(* VectorizeService (src/unnamed/part_007): cache keys.  A string is the   *)
(* sequence of its pieces; a JSON value is a record tagged with its type,  *)
(* an object holding its entries in insertion order.                       *)

\* Array.prototype.join
RECURSIVE Join(_, _)
Join(parts, sep) ==
    IF parts = << >> THEN << >>
    ELSE IF Len(parts) = 1 THEN parts[1]
    ELSE parts[1] \o <<sep>> \o Join(Tail(parts), sep)

JNull == [type |-> "null"]
JNum(n) == [type |-> "number", v |-> n]
JStr(s) == [type |-> "string", v |-> s]
JArr(items) == [type |-> "array", items |-> items]
JObj(entries) == [type |-> "object", entries |-> entries]

\* The UTF-16 code unit of the one-letter property names of the model.
CodeUnit == [a |-> 97, b |-> 98, x |-> 120, y |-> 121]

\* Array.prototype.sort() on property names: ascending code units.
RECURSIVE SortKeys(_)
SortKeys(keys) ==
    IF keys = << >> THEN << >>
    ELSE LET least == CHOOSE i \in 1..Len(keys) :
                          \A j \in 1..Len(keys) : CodeUnit[keys[i]] <= CodeUnit[keys[j]]
         IN <<keys[least]>> \o
            SortKeys(SubSeq(keys, 1, least - 1) \o SubSeq(keys, least + 1, Len(keys)))

\* Object.keys(value): the property names in insertion order.
ObjectKeys(value) == [i \in 1..Len(value.entries) |-> value.entries[i].key]

\* value[key]
Property(value, key) ==
    value.entries[CHOOSE i \in 1..Len(value.entries) : value.entries[i].key = key].value

\* JSON.stringify of null, a number or a string without special characters.
JSONstringifyPrimitive(value) ==
    IF value.type = "null" THEN <<"null">>
    ELSE IF value.type = "number" THEN <<ToString(value.v)>>
    ELSE <<"\"", value.v, "\"">>

\* A stableSerialize that keeps the insertion order of the property names.
RECURSIVE stableSerializeUnsorted(_)
stableSerializeUnsorted(value) ==
    IF value.type \notin {"array", "object"} THEN JSONstringifyPrimitive(value)
    ELSE IF value.type = "array"
    THEN <<"[">> \o Join([i \in 1..Len(value.items) |->
                             stableSerializeUnsorted(value.items[i])], ",") \o <<"]">>
    ELSE LET keys == ObjectKeys(value)
             entries == [i \in 1..Len(keys) |->
                           JSONstringifyPrimitive(JStr(keys[i])) \o <<":">> \o
                           stableSerializeUnsorted(Property(value, keys[i]))]
         IN <<"{">> \o Join(entries, ",") \o <<"}">>

\* Lines 393-407
RECURSIVE stableSerialize(_)
stableSerialize(value) ==
    IF value.type \notin {"array", "object"} THEN JSONstringifyPrimitive(value)
    ELSE IF value.type = "array"
    THEN <<"[">> \o Join([i \in 1..Len(value.items) |->
                             stableSerialize(value.items[i])], ",") \o <<"]">>
    ELSE LET keys == SortKeys(ObjectKeys(value))
             entries == [i \in 1..Len(keys) |->
                           JSONstringifyPrimitive(JStr(keys[i])) \o <<":">> \o
                           stableSerialize(Property(value, keys[i]))]
         IN <<"{">> \o Join(entries, ",") \o <<"}">>

\* Lines 389-391
buildCacheKey(kind, parts) == <<kind, ":">> \o Join(parts, "|")

\* An options.filter that is not passed.
NoFilter == [type |-> "undefined"]

\* Lines 205-211: the key of query.  topK and minScore are already defaulted;
\* minScore is in hundredths.
queryCacheKey(indexType, queryText, topK, minScore, filter) ==
    buildCacheKey("query",
        << <<indexType>>, queryText, <<ToString(topK)>>, <<ToString(minScore)>>,
           IF filter # NoFilter THEN stableSerialize(filter) ELSE << >> >>)

NoQueryArgs == [indexType |-> "", queryText |-> << >>, filter |-> NoFilter]

NoKeyCalls == [args |-> <<NoQueryArgs, NoQueryArgs>>, keys |-> << >>]

\* Line 288: the key of getRelevantContext.
contextCacheKey(query, maxChunks, minScore) ==
    buildCacheKey("context", <<query, <<ToString(maxChunks)>>, <<ToString(minScore)>>>>)

----------------------------------------------------------------------------
(* VectorizeService: the result cache.  vectorCache is a Map in insertion  *)
(* order whose values are VectorCacheEntry records.  A service is its      *)
(* constructor options, defaulted (lines 87-89).                           *)

\* getCached's null, and a value it returns.
Miss == [hit |-> FALSE, data |-> << >>]
Hit(data) == [hit |-> TRUE, data |-> data]

\* A getCached that still serves an entry at its expiresAt.
getCachedAtExpiry(cache, svc, key, t) ==
    IF ~svc.enableCache THEN [got |-> Miss, cache |-> cache]
    ELSE IF MapHas(cache, key) /\ cache[MapIndex(cache, key)].value.expiresAt >= t
    THEN [got |-> Hit(cache[MapIndex(cache, key)].value.data), cache |-> cache]
    ELSE [got |-> Miss, cache |-> MapDelete(cache, key)]

\* Lines 409-422: what is returned, and the Map afterwards.
getCached(cache, svc, key, t) ==
    IF ~svc.enableCache THEN [got |-> Miss, cache |-> cache]
    ELSE IF MapHas(cache, key) /\ cache[MapIndex(cache, key)].value.expiresAt > t
    THEN [got |-> Hit(cache[MapIndex(cache, key)].value.data), cache |-> cache]
    ELSE [got |-> Miss, cache |-> MapDelete(cache, key)]

\* A setCached that removes the newest key when the Map is over its size.
setCachedEvictNewest(cache, svc, key, data, t) ==
    IF ~svc.enableCache THEN cache
    ELSE LET written == MapSet(cache, key, [data |-> data, expiresAt |-> t + svc.cacheTtlMs])
         IN IF Len(written) > svc.maxCacheEntries
            THEN MapDelete(written, written[Len(written)].key)
            ELSE written

\* A setCached that writes whatever enableCache says.
setCachedAlways(cache, svc, key, data, t) ==
    LET written == MapSet(cache, key, [data |-> data, expiresAt |-> t + svc.cacheTtlMs])
    IN IF Len(written) > svc.maxCacheEntries
       THEN MapDelete(written, written[1].key)
       ELSE written

\* Lines 424-438: the Map afterwards.  Every key is a non-empty string, so
\* the test of line 434 passes.
setCached(cache, svc, key, data, t) ==
    IF ~svc.enableCache THEN cache
    ELSE LET written == MapSet(cache, key, [data |-> data, expiresAt |-> t + svc.cacheTtlMs])
         IN IF Len(written) > svc.maxCacheEntries
            THEN MapDelete(written, written[1].key)
            ELSE written

\* Lines 229-235: the matches at or above minScore.
Transform(matches, minScore) == SelectSeq(matches, LAMBDA m : m.score >= minScore)

\* Lines 213-238 of query once the key is built: `matches` is what the index
\* answers when it is asked.  backend tells whether it was asked.
queryWithKey(cache, svc, key, matches, minScore, t) ==
    LET g == getCached(cache, svc, key, t)
    IN IF g.got.hit
       THEN [results |-> g.got.data, cache |-> g.cache, backend |-> FALSE, set |-> FALSE]
       ELSE LET transformed == Transform(matches, minScore)
            IN [results |-> transformed,
                cache   |-> setCached(g.cache, svc, key, transformed, t),
                backend |-> TRUE, set |-> svc.enableCache]

\* Line 255
IndexTypes == <<"profile", "content", "products">>

\* The first n elements: the index answers at most topK matches.
Take(s, n) == SubSeq(s, 1, IF Len(s) < n THEN Len(s) ELSE n)

\* Line 305: Array.prototype.sort by descending score, which is stable.
RECURSIVE SortByScore(_)
SortByScore(s) ==
    IF s = << >> THEN << >>
    ELSE LET best == CHOOSE i \in 1..Len(s) :
                         /\ \A j \in 1..Len(s) : s[i].score >= s[j].score
                         /\ \A j \in 1..(i - 1) : s[j].score < s[i].score
         IN <<s[best]>> \o SortByScore(SubSeq(s, 1, best - 1) \o SubSeq(s, best + 1, Len(s)))

\* The getCached of query calls started one after the other (lines 213-216 of
\* each): what each got, and the Map after the last.
RECURSIVE getCachedEach(_, _, _, _)
getCachedEach(cache, svc, keys, t) ==
    IF keys = << >> THEN [got |-> << >>, cache |-> cache]
    ELSE LET g    == getCached(cache, svc, Head(keys), t)
             rest == getCachedEach(g.cache, svc, Tail(keys), t)
         IN [got |-> <<g.got>> \o rest.got, cache |-> rest.cache]

\* The setCached of query calls (line 237 of each) that resume in the order
\* of `writes`.
RECURSIVE setCachedEach(_, _, _, _)
setCachedEach(cache, svc, writes, t) ==
    IF writes = << >> THEN cache
    ELSE setCachedEach(setCached(cache, svc, Head(writes).key, Head(writes).data, t),
                       svc, Tail(writes), t)

\* Lines 244-270: queryAll on the three indexes.  Promise.all starts the three
\* query calls one after the other, so the three getCached run first; the
\* calls that missed reach their setCached in the order the backend answers
\* them, `order`.
queryAll(cache, svc, queryText, topK, minScore, index, order, t) ==
    LET key == [i \in 1..3 |-> queryCacheKey(IndexTypes[i], queryText, topK, minScore, NoFilter)]
        g == getCachedEach(cache, svc, key, t)
        fresh == [i \in 1..3 |-> Transform(Take(index[IndexTypes[i]], topK), minScore)]
        missed == SelectSeq(order, LAMBDA i : ~g.got[i].hit)
    IN [results |-> [i \in 1..3 |-> IF g.got[i].hit THEN g.got[i].data ELSE fresh[i]],
        cache   |-> setCachedEach(g.cache, svc,
                                  [n \in 1..Len(missed) |->
                                      [key |-> key[missed[n]], data |-> fresh[missed[n]]]], t),
        asked   |-> {IndexTypes[i] : i \in {j \in 1..3 : ~g.got[j].hit}}]

\* Lines 276-311
getRelevantContext(cache, svc, query, maxChunks, minScore, index, order, t) ==
    LET key == contextCacheKey(query, maxChunks, minScore)
        g == getCached(cache, svc, key, t)
    IN IF g.got.hit
       THEN [results |-> g.got.data, cache |-> g.cache, asked |-> {}]
       ELSE LET all == queryAll(g.cache, svc, query, maxChunks, minScore, index, order, t)
                flatResults == SortByScore(all.results[1] \o all.results[2] \o all.results[3])
                topResults == Take(flatResults, maxChunks)
            IN [results |-> topResults,
                cache   |-> setCached(all.cache, svc, key, topResults, t),
                asked   |-> all.asked]

\* The constructor options of the services of the model, defaulted as in
\* lines 87-89.  1000 ms stands for the default 45 s and 2 entries for the
\* default 256; every service shares the one Map.
VectorServices ==
    { [enableCache |-> TRUE,  cacheTtlMs |-> 1000, maxCacheEntries |-> 2],
      [enableCache |-> TRUE,  cacheTtlMs |-> 1000, maxCacheEntries |-> 1],
      [enableCache |-> FALSE, cacheTtlMs |-> 1000, maxCacheEntries |-> 2] }

NoService == [enableCache |-> FALSE, cacheTtlMs |-> Undefined, maxCacheEntries |-> Undefined]

\* No VectorCacheEntry under the key.
NoEntry == [data |-> << >>, expiresAt |-> Undefined]

\* Map.get on the vector cache.
CacheEntry(cache, key) == IF MapHas(cache, key) THEN cache[MapIndex(cache, key)].value ELSE NoEntry

NoVectorCall ==
    [op |-> "", svc |-> NoService, key |-> << >>, t |-> Undefined, found |-> NoEntry,
     got |-> Miss, results |-> << >>, asked |-> {}, changed |-> FALSE, set |-> FALSE]

NoRun == [svc |-> NoService, keys |-> << >>, first |-> Undefined]

----------------------------------------------------------------------------
(* AIService (src/src/server/index.ts): the gateway cache key and the      *)
(* request streamViaGateway sends.  A message content is the sequence of   *)
(* its characters; a model identifier is the sequence of its segments.     *)

\* JSON.stringify of a string: the quotation mark and the reverse solidus are
\* escaped.
RECURSIVE Escaped(_)
Escaped(s) ==
    IF s = << >> THEN << >>
    ELSE (IF Head(s) \in {"\"", "\\"} THEN <<"\\", Head(s)>> ELSE <<Head(s)>>)
         \o Escaped(Tail(s))

JSONstringifyString(s) == <<"\"">> \o Escaped(s) \o <<"\"">>

\* JSON.stringify of one { role, content }.
JSONstringifyMessage(m) ==
    <<"{", "\"role\"", ":">> \o JSONstringifyString(<<m.role>>) \o
    <<",", "\"content\"", ":">> \o JSONstringifyString(m.content) \o <<"}">>

\* A payload that leaves the model out.
GatewayPayloadWithoutModel(model, messages) ==
    <<"{", "\"messages\"", ":", "[">> \o
    Join([i \in 1..Len(messages) |-> JSONstringifyMessage(messages[i])], ",") \o
    <<"]", "}">>

\* Line 1027: JSON.stringify({ model, messages })
GatewayPayload(model, messages) ==
    <<"{", "\"model\"", ":">> \o JSONstringifyString(model) \o
    <<",", "\"messages\"", ":", "[">> \o
    Join([i \in 1..Len(messages) |-> JSONstringifyMessage(messages[i])], ",") \o
    <<"]", "}">>

\* Lines 1028-1032: the SHA-256 digest of the payload in hexadecimal, taken
\* as injective: the payload under a tag.  It is never the empty string.
Sha256Hex(payload) == <<"sha256">> \o payload

\* Lines 1027-1032, the try block: it completes with the key, or
\* crypto.subtle.digest throws or rejects (digestThrows).
TryDigest(model, messages, digestThrows) ==
    IF digestThrows
    THEN [threw |-> TRUE, key |-> << >>]
    ELSE [threw |-> FALSE, key |-> Sha256Hex(GatewayPayload(model, messages))]

\* Lines 1022-1037: the catch block returns the empty string.
buildGatewayCacheKey(model, messages, digestThrows) ==
    LET try == TryDigest(model, messages, digestThrows)
    IN IF try.threw THEN << >> ELSE try.key

\* Headers that carry the key whatever it is.
GatewayHeadersAlwaysKey(cacheKey, cacheTtl) ==
    [ContentType |-> <<"application/json">>,
     cfAigCacheTtl |-> <<ToString(IF cacheTtl # Undefined THEN cacheTtl ELSE 3600)>>,
     hasCacheKey |-> TRUE,
     cfAigCacheKey |-> cacheKey]

\* Lines 853-860: the headers.  hasCacheKey tells whether cf-aig-cache-key is
\* a property of the headers object.
GatewayHeaders(cacheKey, cacheTtl) ==
    [ContentType |-> <<"application/json">>,
     cfAigCacheTtl |-> <<ToString(IF cacheTtl # Undefined THEN cacheTtl ELSE 3600)>>,
     hasCacheKey |-> (cacheKey # << >>),
     cfAigCacheKey |-> IF cacheKey # << >> THEN cacheKey ELSE << >>]

\* Lines 843-845
Provider(model) ==
    IF "openai" \in {model[i] : i \in 1..Len(model)} THEN "openai"
    ELSE IF "anthropic" \in {model[i] : i \in 1..Len(model)} THEN "anthropic"
    ELSE "openai"

\* Lines 837-872: the key and the request given to fetch.
streamViaGateway(model, messages, cacheTtl, digestThrows) ==
    LET cacheKey == buildGatewayCacheKey(model, messages, digestThrows)
    IN [cacheKey |-> cacheKey,
        request  |-> [url     |-> <<"gateway", Provider(model), "chat/completions">>,
                      method  |-> "POST",
                      headers |-> GatewayHeaders(cacheKey, cacheTtl),
                      body    |-> [model |-> model[Len(model)], messages |-> messages]]]

NoGatewayInput == [model |-> << >>, messages |-> << >>, cacheTtl |-> Undefined,
                   digestThrows |-> FALSE]

NoGatewayCall == [inputs |-> <<NoGatewayInput, NoGatewayInput>>, sent |-> << >>]

----------------------------------------------------------------------------
(* The limiter driven by a caller.  When one service of each kind is       *)
(* driven, every call is made to both, with the same identifier, options   *)
(* and clock value.                                                        *)

Stores == {"durable", "memory"}

\* The stores of the services that are driven.
Active == IF service = "both" THEN Stores ELSE {service}

NoResult == [allowed |-> FALSE, blocked |-> FALSE, limit |-> Undefined,
             remaining |-> Undefined, reset |-> Undefined, retryAfter |-> Undefined]

NoCall == [identifier |-> "", t |-> Undefined,
           pre |-> [s \in Stores |-> Null],
           res |-> [s \in Stores |-> NoResult]]

\* UserSession before its first message.
NoSession == [pc |-> "idle", data |-> "", log |-> << >>, sent |-> << >>,
              fault |-> FALSE, threw |-> FALSE, rate |-> NoResult]

NoWindow == [reset |-> Undefined, first |-> Undefined, n |-> 0, allowed |-> 0,
             fromAbsent |-> FALSE]

\* The entry a store holds for an identifier, Null when it holds none.
Stored(s, identifier) ==
    IF s = "durable"
    THEN IF Key(identifier) \in DOMAIN storage THEN storage[Key(identifier)] ELSE Null
    ELSE MapGet(memoryCache, Key(identifier))

\* No effect of useWebSocket has run, and AIChatRoom answers no message.
NoEffect ==
    [isUnmounted |-> FALSE, retryAttempts |-> 0, reconnectTimer |-> 0, pending |-> FALSE,
     delay |-> 0, sockets |-> << >>, socketRef |-> 0, connectionState |-> "connecting",
     createdAtCleanup |-> 0]

NoRoom ==
    [pc |-> "idle", responseId |-> 0, path |-> "", chunks |-> 0, sent |-> << >>,
     escaped |-> {}]

\* The window history after a call at t that found `pre` stored and returned r:
\* a window is the run of results that report the same reset for an entry
\* that stayed stored.
NextWindow(w, pre, r, t) ==
    IF pre = Null \/ r.reset # w.reset
    THEN [reset |-> r.reset, first |-> t, n |-> 1,
          allowed |-> IF r.allowed THEN 1 ELSE 0, fromAbsent |-> (pre = Null)]
    ELSE [w EXCEPT !.n = Min(@ + 1, options.limit + CallSlack),
                   !.allowed = Min(@ + (IF r.allowed THEN 1 ELSE 0),
                                   options.limit + CallSlack)]

InitWith(services) ==
    /\ now = 0
    /\ ticks = 0
    /\ service \in services
    /\ options \in OptionSet
    /\ storage = << >>
    /\ memoryCache = << >>
    /\ last = NoCall
    /\ win = [s \in Stores |-> [i \in Identifiers |-> NoWindow]]
    /\ capEvicted = FALSE
    /\ http = [bucket |-> "", client |-> "", rate |-> NoResult, status |-> 0,
               retryAfterHeader |-> Undefined,
               body |-> [error |-> "", bucket |-> "", retryAfter |-> Undefined],
               executed |-> FALSE]
    /\ served = 0
    /\ vectorCache = << >>
    /\ vecLast = NoVectorCall
    /\ vecRun = NoRun
    /\ inFlight = {}
    /\ objects = << >>
    /\ memoryObjects = << >>
    /\ tasks = << >>
    /\ session = NoSession
    /\ effect = NoEffect
    /\ room = NoRoom

\* No cache key is being derived.
NoKeys ==
    /\ keyCalls = NoKeyCalls
    /\ gateway = NoGatewayCall

\* new RateLimitService(storage) or new RateLimitService()
Init == InitWith(Stores) /\ NoKeys

\* One service of each kind, called in step.
InitPair == InitWith({"both"}) /\ NoKeys

\* await limiter.consume(identifier, options), on both services.
Consume(identifier) ==
    LET d == consumeDurable(storage, identifier, now, options)
        m == consumeMemory(memoryCache, identifier, now, options)
        pre == [s \in Stores |-> IF s \in Active THEN Stored(s, identifier) ELSE Null]
        res == [s \in Stores |-> IF s \notin Active THEN NoResult
                                 ELSE IF s = "durable" THEN d.result ELSE m.result]
    IN /\ storage' = IF "durable" \in Active THEN d.store ELSE storage
       /\ memoryCache' = IF "memory" \in Active THEN m.cache ELSE memoryCache
       /\ last' = [identifier |-> identifier, t |-> now, pre |-> pre, res |-> res]
       /\ win' = [s \in Stores |->
                    IF s \in Active
                    THEN [win[s] EXCEPT ![identifier] = NextWindow(@, pre[s], res[s], now)]
                    ELSE win[s]]
       /\ capEvicted' = (capEvicted \/
              (MapKeys(memoryCache) \ {Key(identifier)}) \ MapKeys(memoryCache') # {})
       /\ UNCHANGED <<now, ticks, service, options, http, served>>
       /\ UNCHANGED <<vectorVars, keyVars, gatewayVars, taskVars, actorVars>>

\* Time passes between two calls.
Tick(steps, max) ==
    /\ ticks < max
    /\ \E d \in steps : now' = now + d
    /\ ticks' = ticks + 1
    /\ UNCHANGED <<service, options, storage, memoryCache, last, win, capEvicted, http, served>>
    /\ UNCHANGED <<vectorVars, keyVars, gatewayVars, taskVars, actorVars>>

AdvanceClock == Tick(ClockSteps, MaxTicks)

Next ==
    \/ \E identifier \in Identifiers : Consume(identifier)
    \/ AdvanceClock

Spec == Init /\ [][Next]_vars

SpecPair == InitPair /\ [][Next]_vars

\* A client that keeps calling while the clock keeps advancing: the clock
\* takes every step it can, and the identifier is consumed again and again.
LiveIdentifier == "test-block"

AdvanceClockLive == Tick(ClockSteps, MaxLiveTicks)

NextLive ==
    \/ Consume(LiveIdentifier)
    \/ AdvanceClockLive

SpecLive ==
    /\ Init
    /\ [][NextLive]_vars
    /\ WF_vars(AdvanceClockLive)
    /\ WF_vars(Consume(LiveIdentifier))

----------------------------------------------------------------------------
(* The HTTP boundary (src/unnamed/part_006): the routes that call          *)
(* enforceHttpRateLimit before their work, on httpRateLimiter, a service   *)
(* constructed without storage.                                            *)

\* The rate-limited routes: bucket, limit and windowMs of lines 75, 93, 124,
\* 165, 191 and 221.
Routes ==
    { [bucket |-> "vectorize-seed",   limit |-> 2,  windowMs |-> 3600000],
      [bucket |-> "vectorize-query",  limit |-> 60, windowMs |-> 60000],
      [bucket |-> "vectorize-search", limit |-> 60, windowMs |-> 60000],
      [bucket |-> "search",           limit |-> 45, windowMs |-> 60000],
      [bucket |-> "recommendations",  limit |-> 45, windowMs |-> 60000],
      [bucket |-> "crawl",            limit |-> 10, windowMs |-> 60000] }

\* The headers of a request that getClientIdentifier reads: cf-connecting-ip
\* ("" when absent) and the addresses of x-forwarded-for, split at commas.
Requests ==
    { [cfConnectingIp |-> "203.0.113.7", forwarded |-> << >>],
      [cfConnectingIp |-> "", forwarded |-> <<"198.51.100.9", "10.0.0.1">>],
      [cfConnectingIp |-> "", forwarded |-> << >>] }

\* Lines 290-300
getClientIdentifier(request) ==
    IF request.cfConnectingIp # "" THEN request.cfConnectingIp
    ELSE IF request.forwarded # << >> THEN request.forwarded[1]
    ELSE "anonymous"

\* Line 276, with the reset in place of the limiter's retryAfter.
HttpRetryAfterFromReset(rate, t) == Ceil(rate.reset - t, 1000)

\* Line 276: rateResult.retryAfter ?? Math.ceil((rateResult.reset - Date.now()) / 1000)
HttpRetryAfter(rate, t) ==
    IF rate.retryAfter # Undefined THEN rate.retryAfter
    ELSE Ceil(rate.reset - t, 1000)

\* A response: status, Retry-After header and the JSON body's error, bucket
\* and retryAfter ("" and Undefined when the body has none).
Response(status, header, error, bucket, retryAfter) ==
    [status |-> status, retryAfterHeader |-> header,
     body |-> [error |-> error, bucket |-> bucket, retryAfter |-> retryAfter]]

\* enforceHttpRateLimit's null.
NoResponse == Response(0, Undefined, "", "", Undefined)

\* enforceHttpRateLimit (lines 259-288) at time t: the limiter's result, the
\* map after it, and the response (NoResponse when the request may proceed).
enforceHttpRateLimit(cache, request, bucket, limit, windowMs, t) ==
    LET clientId == getClientIdentifier(request)
        c == consumeMemory(cache, <<bucket, clientId>>, t,
                           [limit |-> limit, windowMs |-> windowMs,
                            blockDurationMs |-> windowMs])
        retryAfter == HttpRetryAfter(c.result, t)
    IN [rate     |-> c.result,
        cache    |-> c.cache,
        response |-> IF c.result.allowed
                     THEN NoResponse
                     ELSE Response(429, retryAfter, "Rate limit exceeded",
                                   bucket, retryAfter)]

\* A route whose catch gives the unit of the request back to the client.
routeWorkRefunding(cache, identifier, throws) ==
    LET key == Key(identifier) IN
    IF throws /\ MapHas(cache, key)
    THEN MapSet(cache, key, [MapGet(cache, key) EXCEPT !.count = @ - 1])
    ELSE cache

\* The work of a route after its rate-limit check has passed (lines 77-88,
\* 95-119, 126-160, 167-186, 193-216 and 223-239): it returns or throws, the
\* catch answers 500, and neither touches httpRateLimiter.
routeWork(cache, identifier, throws) == cache

\* Steps by which the clock advances between two requests.
HttpClockSteps == {60000}

AdvanceClockHttp == Tick(HttpClockSteps, MaxHttpTicks)

\* The worker after start-up: httpRateLimiter = new RateLimitService().
\* The routes pass their own options; the caller's option record is not read.
InitHttp ==
    /\ InitWith({"memory"})
    /\ NoKeys
    /\ options = CHOOSE o \in OptionSet : o.limit = 0

\* fetch (lines 22-256) on a POST to a rate-limited route: the rate-limit
\* check, and when it passes the route's work, which succeeds (200) or
\* throws (500).
HttpRequest(route, request, throws) ==
    LET e == enforceHttpRateLimit(memoryCache, request, route.bucket,
                                  route.limit, route.windowMs, now)
        limited == e.response # NoResponse
        response == IF limited THEN e.response
                    ELSE IF throws THEN Response(500, Undefined, "failed", "", Undefined)
                    ELSE Response(200, Undefined, "", "", Undefined)
    IN /\ served < MaxServed
       /\ memoryCache' = IF limited THEN e.cache
                         ELSE routeWork(e.cache, <<route.bucket, getClientIdentifier(request)>>,
                                        throws)
       /\ http' = [bucket |-> route.bucket, client |-> getClientIdentifier(request),
                   rate |-> e.rate, status |-> response.status,
                   retryAfterHeader |-> response.retryAfterHeader,
                   body |-> response.body, executed |-> ~limited]
       /\ served' = served + 1
       /\ capEvicted' = (capEvicted \/
              (MapKeys(memoryCache) \ {Key(<<route.bucket, getClientIdentifier(request)>>)})
                  \ MapKeys(memoryCache') # {})
       /\ UNCHANGED <<now, ticks, service, options, storage, last, win>>
       /\ UNCHANGED <<vectorVars, keyVars, gatewayVars, taskVars, actorVars>>

NextHttp ==
    \/ \E route \in Routes, request \in Requests, throws \in BOOLEAN :
           HttpRequest(route, request, throws)
    \/ AdvanceClockHttp

SpecHttp == InitHttp /\ [][NextHttp]_vars

----------------------------------------------------------------------------
(* VectorizeService driven by callers: every call is made on a service     *)
(* constructed for it, as the routes of the worker do, and reads the clock *)
(* once.                                                                   *)

\* The text that is searched for.
QueryText == <<"smoke", " ", "shop">>

\* Lines 200, 202 and 284: topK and maxChunks default to 5; minScore, in
\* hundredths, is 0 for query and is passed to getRelevantContext.
DefaultTopK == 5

\* What the three indexes answer, at two moments of their life.
Indexes ==
    { [profile  |-> <<[id |-> "p1", score |-> 90]>>,
       content  |-> <<[id |-> "c1", score |-> 80], [id |-> "c2", score |-> 60]>>,
       products |-> << >>],
      [profile  |-> <<[id |-> "p1", score |-> 75]>>,
       content  |-> <<[id |-> "c1", score |-> 95]>>,
       products |-> <<[id |-> "k1", score |-> 75]>>] }

\* What the indexes answer to the queries of getRelevantContext: the answer
\* with a match below its minScore.
ContextIndexes == {index \in Indexes : \E i \in 1..Len(index.content) : index.content[i].score < 70}

\* The minScore values passed to getRelevantContext, in hundredths.
ContextMinScores == {70}

\* Orders in which three parallel queries are answered: as started, and
\* reversed.
Orders == {<<1, 2, 3>>, <<3, 2, 1>>}

InitCache ==
    /\ InitWith({"memory"})
    /\ NoKeys
    /\ options = CHOOSE o \in OptionSet : o.limit = 0

\* The history of the keys set since the Map was empty, after a query that
\* found `pre` and may have set `key`.
NextRun(run, svc, key, pre, didSet, t) ==
    IF ~didSet THEN run
    ELSE IF pre = << >> THEN [svc |-> svc, keys |-> <<key>>, first |-> t]
    ELSE IF /\ run # NoRun
            /\ run.svc = svc
            /\ ~MapHas(pre, key)
            /\ key \notin {run.keys[i] : i \in 1..Len(run.keys)}
            /\ Len(run.keys) <= svc.maxCacheEntries
         THEN [run EXCEPT !.keys = Append(@, key)]
    ELSE NoRun

\* await vectorService.query(indexType, query, { topK })
VectorQuery(svc, indexType, index) ==
    LET key == queryCacheKey(indexType, QueryText, DefaultTopK, 0, NoFilter)
        q   == queryWithKey(vectorCache, svc, key, Take(index[indexType], DefaultTopK), 0, now)
    IN /\ vectorCache' = q.cache
       /\ vecLast' = [op |-> "query", svc |-> svc, key |-> key, t |-> now,
                      found |-> CacheEntry(vectorCache, key),
                      got |-> getCached(vectorCache, svc, key, now).got,
                      results |-> q.results,
                      asked |-> IF q.backend THEN {indexType} ELSE {},
                      changed |-> (q.cache # vectorCache),
                      set |-> q.set]
       /\ vecRun' = NextRun(vecRun, svc, key, vectorCache, q.set, now)
       /\ UNCHANGED <<now, ticks, service, options, storage, memoryCache, last, win,
                      capEvicted, http, served, inFlight, keyCalls, gateway, taskVars, actorVars>>

\* await vectorService.getRelevantContext(query, { maxChunks, minScore })
VectorContext(svc, minScore, index, order) ==
    LET key == contextCacheKey(QueryText, DefaultTopK, minScore)
        c   == getRelevantContext(vectorCache, svc, QueryText, DefaultTopK, minScore,
                                  index, order, now)
    IN /\ vectorCache' = c.cache
       /\ vecLast' = [op |-> "context", svc |-> svc, key |-> key, t |-> now,
                      found |-> CacheEntry(vectorCache, key),
                      got |-> getCached(vectorCache, svc, key, now).got,
                      results |-> c.results,
                      asked |-> c.asked,
                      changed |-> (c.cache # vectorCache),
                      set |-> (svc.enableCache /\ ~getCached(vectorCache, svc, key, now).got.hit)]
       /\ vecRun' = IF c.cache = vectorCache THEN vecRun ELSE NoRun
       /\ UNCHANGED <<now, ticks, service, options, storage, memoryCache, last, win,
                      capEvicted, http, served, inFlight, keyCalls, gateway, taskVars, actorVars>>

CacheClockSteps == {500}

AdvanceClockCache == Tick(CacheClockSteps, MaxCacheTicks)

NextCache ==
    \/ \E svc \in VectorServices, i \in 1..3, index \in Indexes :
           VectorQuery(svc, IndexTypes[i], index)
    \/ \E svc \in VectorServices, minScore \in ContextMinScores, index \in ContextIndexes,
          order \in Orders :
           VectorContext(svc, minScore, index, order)
    \/ AdvanceClockCache

SpecCache == InitCache /\ [][NextCache]_vars

----------------------------------------------------------------------------
(* query split at its awaits (lines 219 and 222): other calls run between  *)
(* its getCached and its setCached, and the clock is read again at         *)
(* line 429.                                                               *)

\* Lines 199-216: up to the first await.  A hit returns at once.
QueryStart(svc, indexType) ==
    LET key == queryCacheKey(indexType, QueryText, DefaultTopK, 0, NoFilter)
        g   == getCached(vectorCache, svc, key, now)
        call == [svc |-> svc, indexType |-> indexType, key |-> key]
    IN /\ g.got.hit \/ (call \notin inFlight /\ Cardinality(inFlight) < MaxInFlight)
       /\ vectorCache' = g.cache
       /\ inFlight' = IF g.got.hit THEN inFlight ELSE inFlight \cup {call}
       /\ vecLast' = [op |-> "query.start", svc |-> svc, key |-> key, t |-> now,
                      found |-> CacheEntry(vectorCache, key),
                      got |-> g.got,
                      results |-> g.got.data,
                      asked |-> {},
                      changed |-> (g.cache # vectorCache),
                      set |-> FALSE]
       /\ vecRun' = IF g.cache = vectorCache THEN vecRun ELSE NoRun
       /\ UNCHANGED <<now, ticks, service, options, storage, memoryCache, last, win,
                      capEvicted, http, served, keyCalls, gateway, taskVars, actorVars>>

\* Lines 219-238: the backend has answered.
QueryFinish(call, index) ==
    LET transformed == Transform(Take(index[call.indexType], DefaultTopK), 0)
        written == setCached(vectorCache, call.svc, call.key, transformed, now)
    IN /\ call \in inFlight
       /\ vectorCache' = written
       /\ inFlight' = inFlight \ {call}
       /\ vecLast' = [op |-> "query.end", svc |-> call.svc, key |-> call.key, t |-> now,
                      found |-> CacheEntry(vectorCache, call.key),
                      got |-> Miss,
                      results |-> transformed,
                      asked |-> {call.indexType},
                      changed |-> (written # vectorCache),
                      set |-> call.svc.enableCache]
       /\ vecRun' = NextRun(vecRun, call.svc, call.key, vectorCache, call.svc.enableCache, now)
       /\ UNCHANGED <<now, ticks, service, options, storage, memoryCache, last, win,
                      capEvicted, http, served, keyCalls, gateway, taskVars, actorVars>>

AdvanceClockAwait == Tick(CacheClockSteps, MaxAwaitTicks)

\* VectorQuery is a query that no other call interleaves with.
NextCacheAwait ==
    \/ \E svc \in VectorServices, i \in 1..3 : QueryStart(svc, IndexTypes[i])
    \/ \E call \in inFlight, index \in Indexes : QueryFinish(call, index)
    \/ \E svc \in VectorServices, i \in 1..3, index \in Indexes :
           VectorQuery(svc, IndexTypes[i], index)
    \/ AdvanceClockAwait

SpecCacheAwait == InitCache /\ [][NextCacheAwait]_vars

----------------------------------------------------------------------------
(* The cache key of query (lines 199-211) built for two argument lists.    *)

\* Values of a filter's properties: numbers, arrays, and objects in both
\* insertion orders.
FilterValues ==
    { JNum(1), JNum(2),
      JArr(<<JNum(1), JNum(2)>>), JArr(<<JNum(2), JNum(1)>>),
      JObj(<<[key |-> "x", value |-> JNum(1)], [key |-> "y", value |-> JNum(2)]>>),
      JObj(<<[key |-> "y", value |-> JNum(2)], [key |-> "x", value |-> JNum(1)]>>) }

\* The filters: absent, empty, { a }, { a, b } and { b, a }.
Filters ==
    {NoFilter, JObj(<< >>)}
    \cup {JObj(<<[key |-> "a", value |-> v]>>) : v \in FilterValues}
    \cup {JObj(<<[key |-> k[1], value |-> v], [key |-> k[2], value |-> w]>>) :
             k \in {<<"a", "b">>, <<"b", "a">>}, v \in FilterValues, w \in FilterValues}

QueryArgs ==
    [indexType : {"profile", "content"}, queryText : {QueryText}, filter : Filters]

InitKey ==
    /\ InitWith({"memory"})
    /\ options = CHOOSE o \in OptionSet : o.limit = 0
    /\ gateway = NoGatewayCall
    /\ keyCalls \in [args : QueryArgs \X QueryArgs, keys : {<< >>}]

\* Lines 199-211 of query for the next argument list, topK and minScore
\* left to their defaults.
BuildQueryKey ==
    /\ Len(keyCalls.keys) < 2
    /\ LET a == keyCalls.args[Len(keyCalls.keys) + 1]
       IN keyCalls' = [keyCalls EXCEPT !.keys =
              Append(@, queryCacheKey(a.indexType, a.queryText, DefaultTopK, 0, a.filter))]
    /\ UNCHANGED <<now, ticks, service, options, storage, memoryCache, last, win,
                   capEvicted, http, served, vectorVars, gateway, taskVars, actorVars>>

NextKey == BuildQueryKey

SpecKey == InitKey /\ [][NextKey]_vars

----------------------------------------------------------------------------
(* streamViaGateway called for two chats.                                  *)

\* MODEL_TIERS.premium (lines 698-701)
GatewayModels == {<<"openai", "/", "gpt-4o">>, <<"anthropic", "/", "claude-sonnet-4-5">>}

\* Message contents: plain, and one made of the two characters that
\* JSON.stringify escapes.
GatewayContents == {<<"h", "i">>, <<"\\", "\"">>}

GatewayMessages == [role : {"user", "assistant"}, content : GatewayContents]

GatewayChats == UNION {[1..n -> GatewayMessages] : n \in 0..MaxMessages}

\* options.gateway?.cacheTtl, absent or 60.
GatewayInputs ==
    [model : GatewayModels, messages : GatewayChats, cacheTtl : {Undefined, 60},
     digestThrows : BOOLEAN]

InitGateway ==
    /\ InitWith({"memory"})
    /\ options = CHOOSE o \in OptionSet : o.limit = 0
    /\ keyCalls = NoKeyCalls
    /\ gateway \in [inputs : GatewayInputs \X GatewayInputs, sent : {<< >>}]

\* Lines 837-872 of streamViaGateway for the next chat: up to the fetch.
StreamViaGateway ==
    /\ Len(gateway.sent) < 2
    /\ LET i == gateway.inputs[Len(gateway.sent) + 1]
       IN gateway' = [gateway EXCEPT !.sent =
              Append(@, streamViaGateway(i.model, i.messages, i.cacheTtl, i.digestThrows))]
    /\ UNCHANGED <<now, ticks, service, options, storage, memoryCache, last, win,
                   capEvicted, http, served, vectorVars, keyCalls, taskVars, actorVars>>

NextGateway == StreamViaGateway

SpecGateway == InitGateway /\ [][NextGateway]_vars

----------------------------------------------------------------------------
(* consume on the service without storage, split at its awaits.  getEntry  *)
(* and setEntry are async functions without an await on this path: their   *)
(* bodies run with the code before them, and the caller is suspended at    *)
(* `await this.getEntry(key)` (line 57) and at `await this.setEntry(key,   *)
(* entry)` (lines 84 and 96), where other calls run.  The Map holds        *)
(* references: `entry` is the stored object itself unless lines 72-75 make *)
(* a new one.                                                              *)

\* The Map with the objects in the place of their references.
Deref(map, objs) ==
    [i \in 1..Len(map) |-> [key |-> map[i].key, value |-> objs[map[i].value]]]

\* No object: getEntry's null.
NoRef == 0

\* The object a reference points to.
Object(objs, ref) == IF ref = NoRef THEN Null ELSE objs[ref]

\* A resumed call that reads the Map again.
ResumeEntryReread(task, map) ==
    IF MapHas(map, Key(task.identifier)) THEN map[MapIndex(map, Key(task.identifier))].value
    ELSE NoRef

\* Line 57: the value of `entry` when the call resumes is what getEntry
\* returned when the call started.
ResumeEntry(task, map) == task.entry

\* A getEntry that hands out a copy of the stored entry: every counted call
\* writes an object of its own.
EntryIsNewObjectAlways(found, t) == TRUE

\* Lines 62-66: `entry = { count: 0, reset: now + windowMs }` makes a new
\* object; otherwise `entry` stays the object getEntry returned.
EntryIsNewObject(found, t) == WindowOver(found, t)

\* Lines 53-57: Date.now() and the body of getEntry (lines 116-124).
ConsumeStart(identifier) ==
    LET key == Key(identifier)
        g   == getEntryMemory(Deref(memoryObjects, objects), key, now)
        ref == IF g.entry = Null THEN NoRef
               ELSE memoryObjects[MapIndex(memoryObjects, key)].value
    IN /\ Len(tasks) < MaxCalls
       /\ memoryObjects' = SelectSeq(memoryObjects, LAMBDA e : e.key \in MapKeys(g.cache))
       /\ tasks' = Append(tasks, [identifier |-> identifier, now |-> now, pc |-> "getEntry",
                                  found |-> ref, entry |-> ref, allowed |-> FALSE,
                                  result |-> NoResult])
       /\ UNCHANGED <<objects, now, ticks, service, options, storage, memoryCache, last, win,
                      capEvicted, http, served, vectorVars, keyVars, gatewayVars, actorVars>>

\* Lines 59-96, from the first await to the second: the call returns at
\* line 61, or changes `entry` and runs the body of setEntry (lines
\* 133-141).
ConsumeResume(i) ==
    LET task  == tasks[i]
        ref0  == ResumeEntry(task, memoryObjects)
        found == Object(objects, ref0)
        c     == consumeEntry(found, task.now, options)
        new   == EntryIsNewObject(found, task.now)
        ref   == IF new THEN Len(objects) + 1 ELSE ref0
    IN /\ task.pc = "getEntry"
       /\ IF ~c.write
          THEN /\ tasks' = [tasks EXCEPT ![i].pc = "done", ![i].result = c.result]
               /\ UNCHANGED <<objects, memoryObjects>>
          ELSE /\ objects' = IF new THEN Append(objects, c.entry)
                                    ELSE [objects EXCEPT ![ref0] = c.entry]
               /\ memoryObjects' = setEntryMemory(memoryObjects, Key(task.identifier), ref)
               /\ tasks' = [tasks EXCEPT ![i].pc = "setEntry", ![i].entry = ref,
                                         ![i].allowed = c.result.allowed]
       /\ UNCHANGED <<now, ticks, service, options, storage, memoryCache, last, win,
                      capEvicted, http, served, vectorVars, keyVars, gatewayVars, actorVars>>

\* Lines 86-93 and 98-103, after the second await: the result reads `entry`
\* as it is now.
ConsumeReturn(i) ==
    LET task  == tasks[i]
        entry == objects[task.entry]
    IN /\ task.pc = "setEntry"
       /\ tasks' = [tasks EXCEPT ![i].pc = "done", ![i].result =
              IF task.allowed
              THEN [allowed |-> TRUE, blocked |-> FALSE, limit |-> options.limit,
                    remaining |-> Remaining(entry.count, options),
                    reset |-> entry.reset, retryAfter |-> Undefined]
              ELSE [allowed |-> FALSE, blocked |-> TRUE, limit |-> options.limit,
                    remaining |-> 0, reset |-> entry.reset,
                    retryAfter |-> Ceil(Penalty(options), 1000)]]
       /\ UNCHANGED <<objects, memoryObjects, now, ticks, service, options, storage,
                      memoryCache, last, win, capEvicted, http, served, vectorVars,
                      keyVars, gatewayVars, actorVars>>

InitTasks == InitWith({"memory"}) /\ NoKeys

AdvanceClockTasks == Tick(ClockSteps, MaxTaskTicks)

NextTasks ==
    \/ \E identifier \in Identifiers : ConsumeStart(identifier)
    \/ \E i \in 1..Len(tasks) : ConsumeResume(i)
    \/ \E i \in 1..Len(tasks) : ConsumeReturn(i)
    \/ AdvanceClockTasks

SpecTasks == InitTasks /\ [][NextTasks]_vars

----------------------------------------------------------------------------
(* UserSession (src/src/server/durable-objects/UserSession.ts): onMessage  *)
(* on a session whose onStart has run, so that calendarService and         *)
(* rateLimiter = new RateLimitService(this.ctx.storage) are set.  The      *)
(* session handles one message at a time: consume awaits the storage of    *)
(* the session only.                                                       *)

\* Line 45 and line 52: `calendar:${userId}`
CalendarIdentifier == "calendar:default"

\* Lines 53-55
CalendarOptions == [limit |-> 60, windowMs |-> 60000, blockDurationMs |-> 10000]

\* The cases of the switch (lines 68-107): the CalendarService method each
\* message type calls and the type of the message broadcast with its result.
CalendarOperations ==
    [type : {"calendar.create"},   method : {"createEvent"},       answer : {"calendar.created"}]
    \cup [type : {"calendar.get"},      method : {"getEvent"},          answer : {"calendar.event"}]
    \cup [type : {"calendar.list"},     method : {"getEvents"},         answer : {"calendar.events"}]
    \cup [type : {"calendar.upcoming"}, method : {"getUpcomingEvents"}, answer : {"calendar.upcoming"}]
    \cup [type : {"calendar.update"},   method : {"updateEvent"},       answer : {"calendar.updated"}]
    \cup [type : {"calendar.delete"},   method : {"deleteEvent"},       answer : {"calendar.deleted"}]
    \cup [type : {"calendar.stats"},    method : {"getStats"},          answer : {"calendar.stats"}]

CalendarTypes == {o.type : o \in CalendarOperations}

CalendarMethods == {o.method : o \in CalendarOperations}

CalendarOperation(type) == CHOOSE o \in CalendarOperations : o.type = type

\* What JSON.parse(message) gives (line 38): an object with one of the
\* types of the switch or with another type, the value null, or a
\* SyntaxError ("" here).
SessionData == CalendarTypes \cup {"calendar.sync", "null"}

SessionMessages == SessionData \cup {""}

\* JSON.stringify({ type: 'error', error })
ErrorMessage(error) == [type |-> "error", error |-> error]

\* Line 61: `Too many calendar actions. Try again in ${result.retryAfter ?? 5}s.`
TooManyActions(result) ==
    <<"Too many calendar actions. Try again in ",
      IF result.retryAfter # Undefined THEN result.retryAfter ELSE 5,
      "s.">>

\* A consume that answers a failed storage operation with an allowed result.
consumeDurableFailOpen(store, identifier, t, opts, getThrows, putThrows, putApplied) ==
    LET key == Key(identifier)
        c   == consumeEntry(getEntryDurable(store, key, t), t, opts)
        written == setEntryDurable(store, key, c.entry)
    IN IF getThrows \/ (c.write /\ putThrows)
       THEN [fault |-> TRUE, threw |-> FALSE,
             result |-> [allowed |-> TRUE, blocked |-> FALSE, limit |-> opts.limit,
                         remaining |-> opts.limit, reset |-> t + opts.windowMs,
                         retryAfter |-> Undefined],
             store |-> store]
       ELSE [fault |-> FALSE, threw |-> FALSE, result |-> c.result,
             store |-> IF c.write THEN written ELSE store]

\* consume (RateLimitService.ts lines 53-104) on a service constructed with
\* storage whose get (line 108) or put (line 129) may reject: the rejection
\* leaves consume through its awaits (lines 57, 84 and 96) and no result is
\* returned.  A put that rejects may or may not have been applied.  fault
\* tells that a storage operation rejected, threw that consume did.
consumeDurableFaulty(store, identifier, t, opts, getThrows, putThrows, putApplied) ==
    LET key == Key(identifier)
        c   == consumeEntry(getEntryDurable(store, key, t), t, opts)
        written == setEntryDurable(store, key, c.entry)
    IN IF getThrows
       THEN [fault |-> TRUE, threw |-> TRUE, result |-> NoResult, store |-> store]
       ELSE IF c.write /\ putThrows
       THEN [fault |-> TRUE, threw |-> TRUE, result |-> NoResult,
             store |-> IF putApplied THEN written ELSE store]
       ELSE [fault |-> FALSE, threw |-> FALSE, result |-> c.result,
             store |-> IF c.write THEN written ELSE store]

\* An entry of the log of a message: a call that has been made.
CallOf(name, arguments) == [call |-> name, arguments |-> arguments]

\* Lines 58-111 without the check of line 58: the switch runs whatever
\* consume returned.
afterConsumeUnchecked(data, c) ==
    IF c.threw
    THEN [pc |-> "done", log |-> << >>, sent |-> <<ErrorMessage(<<"storage failure">>)>>]
    ELSE IF data = "null"
    THEN [pc |-> "done", log |-> << >>,
          sent |-> <<ErrorMessage(<<"Cannot read properties of null">>)>>]
    ELSE IF data \in CalendarTypes
    THEN [pc |-> "calendar", log |-> <<CallOf(CalendarOperation(data).method, data)>>,
          sent |-> << >>]
    ELSE [pc |-> "done", log |-> << >>, sent |-> <<ErrorMessage(<<"Unknown message type">>)>>]

\* Lines 58-111, after `await this.rateLimiter.consume(...)` has settled
\* with c: the catch of line 112 when it rejected, the return of line 63
\* when it denied, and otherwise the switch, which calls the method of the
\* message type, throws on `data.type` when data is null, or reaches its
\* default.
afterConsume(data, c) ==
    IF c.threw
    THEN [pc |-> "done", log |-> << >>, sent |-> <<ErrorMessage(<<"storage failure">>)>>]
    ELSE IF ~c.result.allowed
    THEN [pc |-> "done", log |-> << >>, sent |-> <<ErrorMessage(TooManyActions(c.result))>>]
    ELSE IF data = "null"
    THEN [pc |-> "done", log |-> << >>,
          sent |-> <<ErrorMessage(<<"Cannot read properties of null">>)>>]
    ELSE IF data \in CalendarTypes
    THEN [pc |-> "calendar", log |-> <<CallOf(CalendarOperation(data).method, data)>>,
          sent |-> << >>]
    ELSE [pc |-> "done", log |-> << >>, sent |-> <<ErrorMessage(<<"Unknown message type">>)>>]

\* onMessage (lines 36-66) up to the call of the CalendarService method:
\* JSON.parse, consume on this.ctx.storage, and what follows it.
OnMessage(message, getThrows, putThrows, putApplied) ==
    /\ session.pc \in {"idle", "done"}
    /\ IF message = ""
       THEN /\ session' = [pc |-> "done", data |-> "", log |-> << >>,
                           sent |-> <<ErrorMessage(<<"Unexpected token">>)>>,
                           fault |-> FALSE, threw |-> FALSE, rate |-> NoResult]
            /\ UNCHANGED storage
       ELSE LET c == consumeDurableFaulty(storage, CalendarIdentifier, now, CalendarOptions,
                                          getThrows, putThrows, putApplied)
                a == afterConsume(message, c)
            IN /\ storage' = c.store
               /\ session' = [pc |-> a.pc, data |-> message,
                              log |-> <<CallOf("consume", <<CalendarIdentifier, CalendarOptions>>)>>
                                      \o a.log,
                              sent |-> a.sent, fault |-> c.fault, threw |-> c.threw,
                              rate |-> c.result]
    /\ UNCHANGED <<now, ticks, service, options, memoryCache, last, win, capEvicted, http, served,
                   vectorVars, keyVars, gatewayVars, taskVars, effect, room>>

\* Lines 68-118: the CalendarService method returns and its result is
\* broadcast, or it throws and the catch broadcasts the error.
CalendarReturn(throws) ==
    /\ session.pc = "calendar"
    /\ session' = [session EXCEPT
           !.pc = "done",
           !.sent = IF throws THEN <<ErrorMessage(<<"calendar failure">>)>>
                    ELSE <<[type |-> CalendarOperation(session.data).answer, error |-> << >>]>>]
    /\ UNCHANGED <<now, ticks, service, options, storage, memoryCache, last, win, capEvicted,
                   http, served, vectorVars, keyVars, gatewayVars, taskVars, effect, room>>

\* What the storage does to the operations of one consume call: nothing, or
\* its get rejects, or its put rejects, applied or not.
StorageFaults ==
    { [getThrows |-> FALSE, putThrows |-> FALSE, putApplied |-> FALSE],
      [getThrows |-> TRUE,  putThrows |-> FALSE, putApplied |-> FALSE],
      [getThrows |-> FALSE, putThrows |-> TRUE,  putApplied |-> FALSE],
      [getThrows |-> FALSE, putThrows |-> TRUE,  putApplied |-> TRUE] }

\* Steps by which the clock advances between two steps of the session.
SessionClockSteps == {5000, 60000}

AdvanceClockSession == Tick(SessionClockSteps, MaxSessionTicks)

\* The session after onStart.  The option record of the callers of Spec is
\* not read.
InitSession ==
    /\ InitWith({"durable"})
    /\ NoKeys
    /\ options = CHOOSE o \in OptionSet : o.limit = 0

NextSession ==
    \/ \E message \in SessionMessages, fault \in StorageFaults :
           OnMessage(message, fault.getThrows, fault.putThrows, fault.putApplied)
    \/ \E throws \in BOOLEAN : CalendarReturn(throws)
    \/ AdvanceClockSession

SpecSession == InitSession /\ [][NextSession]_vars

----------------------------------------------------------------------------
(* useWebSocket (src/src/client/hooks/useWebSocket.ts): one run of the     *)
(* effect of lines 29-90.  A socket is its readyState and whether its      *)
(* close event has been dispatched; the timer of line 67 is the id in      *)
(* reconnectTimer and whether it is still armed.                           *)

\* Lines 37-40 of connect: new WebSocket(url) is CONNECTING.
connect(e) ==
    [e EXCEPT !.connectionState = "connecting",
              !.sockets = Append(@, [readyState |-> "CONNECTING", closeFired |-> FALSE]),
              !.socketRef = Len(e.sockets) + 1]

\* Lines 65-66
NextRetryAttempts(retryAttempts) == Min(retryAttempts + 1, 5)

ReconnectDelay(retryAttempts) == Min(1000 * 2 ^ retryAttempts, 10000)

\* WebSocket.close(): an OPEN or CONNECTING socket starts closing; a closing
\* or closed one is left as it is.
close(socket) ==
    IF socket.readyState \in {"CONNECTING", "OPEN"}
    THEN [socket EXCEPT !.readyState = "CLOSING"]
    ELSE socket

\* Lines 85-87 of the cleanup.
cleanupSockets(e) ==
    IF e.socketRef # 0 /\ e.sockets[e.socketRef].readyState = "OPEN"
    THEN [e.sockets EXCEPT ![e.socketRef] = close(@)]
    ELSE e.sockets

\* Line 78: the effect runs and calls connect().
InitSocket ==
    /\ InitWith({"memory"})
    /\ NoKeys
    /\ options = CHOOSE o \in OptionSet : o.limit = 0

EffectUnchanged ==
    UNCHANGED <<now, ticks, service, options, storage, memoryCache, last, win, capEvicted,
                http, served, vectorVars, keyVars, gatewayVars, taskVars, session, room>>

\* Lines 29-78: the effect runs.
EffectRuns ==
    /\ effect = NoEffect
    /\ effect' = connect(effect)
    /\ EffectUnchanged

\* Lines 42-48: the connection is established and 'open' is dispatched.
SocketOpen(i) ==
    /\ effect.sockets[i].readyState = "CONNECTING"
    /\ effect' = [IF effect.isUnmounted THEN effect
                  ELSE [effect EXCEPT !.retryAttempts = 0, !.connectionState = "open"]
                  EXCEPT !.sockets[i].readyState = "OPEN"]
    /\ EffectUnchanged

\* Lines 70-75: the connection fails and 'error' is dispatched, with the
\* socket already CLOSED or not yet, as the platform has it; the handler
\* calls socket.close().
SocketError(i, closedFirst) ==
    /\ effect.sockets[i].readyState \in {"CONNECTING", "OPEN"}
    /\ effect' = [effect EXCEPT
           !.connectionState = "error",
           !.sockets[i] = close(IF closedFirst THEN [@ EXCEPT !.readyState = "CLOSED"] ELSE @)]
    /\ EffectUnchanged

\* Lines 59-68: the socket is closed (by the server, after close(), or after
\* a failure) and 'close' is dispatched.
SocketClose(i) ==
    /\ effect.sockets[i].readyState \in {"OPEN", "CLOSING", "CLOSED"}
    /\ ~effect.sockets[i].closeFired
    /\ LET e == [effect EXCEPT !.sockets[i] = [readyState |-> "CLOSED", closeFired |-> TRUE]]
       IN effect' = IF e.isUnmounted THEN e
                    ELSE [e EXCEPT !.connectionState = "closed",
                                   !.retryAttempts = NextRetryAttempts(@),
                                   !.delay = ReconnectDelay(NextRetryAttempts(e.retryAttempts)),
                                   !.reconnectTimer = @ + 1,
                                   !.pending = TRUE]
    /\ EffectUnchanged

\* Line 67: the timer fires and calls connect.
TimerFires ==
    /\ effect.pending
    /\ Len(effect.sockets) < MaxSockets
    /\ effect' = connect([effect EXCEPT !.pending = FALSE])
    /\ EffectUnchanged

\* Lines 80-89: the cleanup of the effect.
Cleanup ==
    /\ effect # NoEffect
    /\ ~effect.isUnmounted
    /\ effect' = [effect EXCEPT
           !.isUnmounted = TRUE,
           !.pending = IF effect.reconnectTimer # 0 THEN FALSE ELSE @,
           !.sockets = cleanupSockets(effect),
           !.socketRef = 0,
           !.createdAtCleanup = Len(effect.sockets)]
    /\ EffectUnchanged

NextSocket ==
    \/ EffectRuns
    \/ \E i \in 1..Len(effect.sockets) : SocketOpen(i)
    \/ \E i \in 1..Len(effect.sockets) : \E closedFirst \in BOOLEAN : SocketError(i, closedFirst)
    \/ \E i \in 1..Len(effect.sockets) : SocketClose(i)
    \/ TimerFires
    \/ Cleanup

SpecSocket == InitSocket /\ [][NextSocket]_vars

----------------------------------------------------------------------------
(* AIChatRoom (src/src/server/services/RateLimitService.ts, lines          *)
(* 595-1112): handleNewMessage and sendAIResponse, one message.new at a    *)
(* time.  room.sent is what has been broadcast, each message with the id   *)
(* it carries (0 for the user's message); room.escaped holds the response  *)
(* ids whose sendAIResponse ended with an exception.                       *)

\* Lines 1101-1111: broadcast never throws.
Broadcast(r, type, id, error) ==
    [r EXCEPT !.sent = Append(@, [type |-> type, id |-> id, error |-> error])]

\* Lines 1037-1071: the INSERT throws, or the message is saved and
\* message.complete is broadcast.
saveAndBroadcastMessage(r, error, sqlThrows) ==
    IF sqlThrows
    THEN [threw |-> TRUE, room |-> r]
    ELSE [threw |-> FALSE, room |-> Broadcast(r, "message.complete", r.responseId, error)]

\* A catch that only logs the error.
catchErrorSilent(r, sqlThrows) == [r EXCEPT !.pc = "done"]

\* Lines 1023-1031: the catch of sendAIResponse saves and broadcasts the
\* error message; an exception of its INSERT leaves sendAIResponse.
catchError(r, sqlThrows) ==
    LET saved == saveAndBroadcastMessage(r, TRUE, sqlThrows)
    IN [saved.room EXCEPT !.pc = "done",
                          !.escaped = IF saved.threw THEN @ \cup {r.responseId} ELSE @]

\* Lines 992-996 and 1006-1010: the response is saved and broadcast inside
\* the try; an exception of the INSERT is caught by line 1023.
complete(r, sqlThrows, sqlThrowsAgain) ==
    LET saved == saveAndBroadcastMessage(r, FALSE, sqlThrows)
    IN IF saved.threw THEN catchError(r, sqlThrowsAgain)
       ELSE [saved.room EXCEPT !.pc = "done"]

\* What chatWithContext answers (or the history query or it throws), and
\* what reader.read() answers.
ChatOutcomes == {"throws", "string", "stream"}

ReadOutcomes == {"chunk", "done", "value.done", "throws"}

RoomUnchanged ==
    UNCHANGED <<now, ticks, service, options, storage, memoryCache, last, win, capEvicted,
                http, served, vectorVars, keyVars, gatewayVars, taskVars, session, effect>>

\* Lines 844-888 and 953-954: the user's message is saved and broadcast, and
\* sendAIResponse draws the response id and calls chatWithContext.
HandleNewMessage ==
    /\ room.pc \in {"idle", "done"}
    /\ room.responseId < MaxResponses
    /\ room' = [Broadcast(room, "message.add", 0, FALSE)
                EXCEPT !.pc = "chat", !.responseId = @ + 1, !.path = "", !.chunks = 0]
    /\ RoomUnchanged

\* Lines 956-1000: chatWithContext returns or throws.
ChatReturns(outcome, sources, sqlThrows, sqlThrowsAgain) ==
    /\ room.pc = "chat"
    /\ LET r == [room EXCEPT !.path = outcome]
           c == IF sources THEN Broadcast(r, "context.update", r.responseId, FALSE) ELSE r
       IN room' = CASE outcome = "throws" -> catchError(r, sqlThrows)
                    [] outcome = "string" -> complete(c, sqlThrows, sqlThrowsAgain)
                    [] outcome = "stream" -> [c EXCEPT !.pc = "read"]
    /\ RoomUnchanged

\* Lines 1003-1022: one turn of the loop.
ReaderRead(outcome, sqlThrows, sqlThrowsAgain) ==
    /\ room.pc = "read"
    /\ outcome = "chunk" => room.chunks < MaxChunks
    /\ LET r == [room EXCEPT !.path = outcome]
       IN room' = CASE outcome = "throws" -> catchError(r, sqlThrows)
                    [] outcome \in {"done", "value.done"} ->
                           complete(r, sqlThrows, sqlThrowsAgain)
                    [] outcome = "chunk" ->
                           [Broadcast(room, "message.stream", room.responseId, FALSE)
                            EXCEPT !.chunks = @ + 1]
    /\ RoomUnchanged

InitRoom ==
    /\ InitWith({"memory"})
    /\ NoKeys
    /\ options = CHOOSE o \in OptionSet : o.limit = 0

NextRoom ==
    \/ HandleNewMessage
    \/ \E outcome \in ChatOutcomes : \E sources, sqlThrows, sqlThrowsAgain \in BOOLEAN :
           ChatReturns(outcome, sources, sqlThrows, sqlThrowsAgain)
    \/ \E outcome \in ReadOutcomes : \E sqlThrows, sqlThrowsAgain \in BOOLEAN :
           ReaderRead(outcome, sqlThrows, sqlThrowsAgain)

SpecRoom == InitRoom /\ [][NextRoom]_vars

----------------------------------------------------------------------------
(* Properties of RateLimitService.consume.                                 *)

\* The last call was made to the service with store s.
Called(s) == last.identifier # "" /\ s \in Active

\* The window of the last call's identifier, and what is stored for it now
\* (nothing is written between one call and the next).
LastWindow(s) == win[s][last.identifier]

LastStored(s) == Stored(s, last.identifier)

\* The penalty the options ask for.
ConfiguredPenalty ==
    IF options.blockDurationMs = Undefined
    THEN (options.windowMs + 1) \div 2
    ELSE options.blockDurationMs

\* The last call found a block that was still running / that had ended.
FoundBlockRunning(s) ==
    /\ last.pre[s] # Null
    /\ Truthy(last.pre[s].blockUntil)
    /\ last.t < last.pre[s].blockUntil

FoundBlockEnded(s) ==
    /\ last.pre[s] # Null
    /\ Truthy(last.pre[s].blockUntil)
    /\ last.t >= last.pre[s].blockUntil

C5_FreshWindow ==
    \A s \in Stores :
        (/\ Called(s)
         /\ last.pre[s] # Null
         /\ last.t >= last.pre[s].reset
         /\ ~FoundBlockRunning(s)
         /\ options.limit >= 1)
        => (/\ last.res[s].allowed
            /\ last.res[s].remaining = options.limit - 1
            /\ last.res[s].reset = last.t + options.windowMs
            /\ LastStored(s) = [count |-> 1, reset |-> last.t + options.windowMs,
                                blockUntil |-> Undefined])

C5_Witness ==
    \E s \in Stores :
        /\ Called(s)
        /\ FoundBlockEnded(s)
        /\ last.t = last.pre[s].reset
        /\ last.pre[s].count = options.limit
        /\ options.limit >= 2
        /\ last.res[s].allowed
        /\ last.res[s].remaining = options.limit - 1

\* C6: no stored entry has a count above the limit.
C6_CountAtMostLimit ==
    /\ \A k \in DOMAIN storage : storage[k].count <= options.limit
    /\ \A i \in 1..Len(memoryCache) : memoryCache[i].value.count <= options.limit

C6_Witness ==
    \E s \in Stores :
        /\ Called(s)
        /\ ~last.res[s].allowed
        /\ ~FoundBlockRunning(s)
        /\ LastStored(s).count = options.limit
        /\ LastStored(s).blockUntil = last.t + ConfiguredPenalty

\* C7: a denial by a running block has retryAfter = ceil((blockUntil - now)
\* / 1000), which is at least 1; and no result has a negative remaining.
C7_RetryAfterRoundsUp ==
    \A s \in Stores : Called(s) =>
        /\ last.res[s].remaining >= 0
        /\ FoundBlockRunning(s) =>
            LET wait == last.pre[s].blockUntil - last.t
                r == last.res[s]
            IN /\ ~r.allowed
               /\ r.retryAfter * 1000 >= wait
               /\ wait > (r.retryAfter - 1) * 1000
               /\ r.retryAfter >= 1

C7_Witness ==
    \E s \in Stores :
        /\ Called(s)
        /\ FoundBlockRunning(s)
        /\ last.res[s].retryAfter = 2
        /\ last.pre[s].blockUntil - last.t = 1500

----------------------------------------------------------------------------
(* Properties of the HTTP boundary and of the denial results.              *)

\* C9: a denied check answers 429 with Retry-After and the body's
\* retryAfter equal to the limiter's retryAfter, the body naming the bucket,
\* and the route's work is not executed; an allowed check lets it run.
C9_DeniedIs429 ==
    served > 0 =>
        IF http.rate.allowed
        THEN http.executed /\ http.status \in {200, 500}
        ELSE /\ ~http.executed
             /\ http.status = 429
             /\ http.retryAfterHeader = http.rate.retryAfter
             /\ http.body = [error |-> "Rate limit exceeded", bucket |-> http.bucket,
                             retryAfter |-> http.rate.retryAfter]

C9_Witness ==
    /\ served > 0
    /\ ~http.rate.allowed
    /\ ~http.executed
    /\ http.status = 429
    /\ http.client = "198.51.100.9"
    /\ http.retryAfterHeader = 3600
    /\ http.rate.reset - now < 3600000

\* The last call was denied because it went past the limit (soft) or
\* because a block was already running when it arrived (hard).
SoftDenial(call, s) ==
    /\ call.identifier # ""
    /\ ~call.res[s].allowed
    /\ ~(call.pre[s] # Null /\ Truthy(call.pre[s].blockUntil)
                            /\ call.t < call.pre[s].blockUntil)

HardDenial(call, s) ==
    /\ call.identifier # ""
    /\ ~call.res[s].allowed
    /\ call.pre[s] # Null
    /\ Truthy(call.pre[s].blockUntil)
    /\ call.t < call.pre[s].blockUntil

\* C10: a soft denial and a hard denial differ in some field of the
\* RateLimitResult (the 429 body holds less: error, bucket, retryAfter).
\* Stated for a soft denial followed by a hard one for the same identifier.
C10_SoftAndHardDiffer ==
    [][\A s \in Stores :
          (/\ s \in Active
           /\ SoftDenial(last, s)
           /\ last'.identifier = last.identifier
           /\ HardDenial(last', s))
          => last'.res[s] # last.res[s]]_vars

\* C18: a consume that finds a running block is denied and leaves the
\* stored entry of the identifier as it found it: count, reset and
\* blockUntil are the same before and after the call.
C18_BlockedCallWritesNothing ==
    \A s \in Stores : (Called(s) /\ FoundBlockRunning(s)) =>
        /\ ~last.res[s].allowed
        /\ LastStored(s) = last.pre[s]

\* A call was denied by a block that an earlier moment had started.
C18_Witness ==
    /\ Called("durable")
    /\ FoundBlockRunning("durable")
    /\ last.pre["durable"].blockUntil < last.t + ConfiguredPenalty
    /\ LastStored("durable").blockUntil = last.pre["durable"].blockUntil

----------------------------------------------------------------------------
(* Properties of the VectorizeService cache.                               *)

VectorCalled == vecLast.op # ""

\* The services of the model that cache.
CachingServices == {svc \in VectorServices : svc.enableCache}

\* C11: getCached returns a stored value only at a time before the
\* expiresAt of its entry, and it is then the data of that entry; a read at
\* or after expiresAt misses and deletes the entry, so that a query that
\* sets the key again puts it last in the Map; expiresAt is the time of the
\* set plus the cacheTtlMs of the setting service.
C11_ServedOnlyBeforeExpiry ==
    /\ (VectorCalled /\ vecLast.got.hit) =>
           /\ vecLast.found # NoEntry
           /\ vecLast.t < vecLast.found.expiresAt
           /\ vecLast.results = vecLast.found.data
           /\ vecLast.asked = {}
    /\ (/\ VectorCalled /\ vecLast.svc.enableCache /\ vecLast.found # NoEntry
        /\ vecLast.t >= vecLast.found.expiresAt) =>
           /\ ~vecLast.got.hit
           /\ vecLast.op \in {"query", "context"} /\ MapHas(vectorCache, vecLast.key) =>
                  vectorCache[Len(vectorCache)].key = vecLast.key
    /\ (VectorCalled /\ vecLast.set /\ MapHas(vectorCache, vecLast.key)) =>
           CacheEntry(vectorCache, vecLast.key) =
               [data |-> vecLast.results, expiresAt |-> vecLast.t + vecLast.svc.cacheTtlMs]
    /\ \A svc \in CachingServices, key \in MapKeys(vectorCache) :
           LET entry == CacheEntry(vectorCache, key)
               g == getCached(vectorCache, svc, key, now)
           IN IF now < entry.expiresAt
              THEN g.got = Hit(entry.data) /\ g.cache = vectorCache
              ELSE g.got = Miss /\ ~MapHas(g.cache, key)
                   /\ MapKeys(g.cache) = MapKeys(vectorCache) \ {key}

\* A query found an entry at its expiresAt or later.
C11_Witness ==
    /\ vecLast.op = "query" /\ vecLast.svc.enableCache
    /\ vecLast.found # NoEntry
    /\ vecLast.t >= vecLast.found.expiresAt
    /\ MapHas(vectorCache, vecLast.key)

C13_EvictsEarliest ==
    (/\ vecRun # NoRun
     /\ Len(vecRun.keys) = vecRun.svc.maxCacheEntries + 1
     /\ now < vecRun.first + vecRun.svc.cacheTtlMs) =>
        /\ ~getCached(vectorCache, vecRun.svc, vecRun.keys[1], now).got.hit
        /\ \A i \in 2..Len(vecRun.keys) :
               getCached(vectorCache, vecRun.svc, vecRun.keys[i], now).got.hit
        /\ MapKeys(vectorCache) = {vecRun.keys[i] : i \in 2..Len(vecRun.keys)}

\* Three keys were set by the service that keeps two.
C13_Witness ==
    /\ vecRun # NoRun
    /\ vecRun.svc.maxCacheEntries = 2
    /\ Len(vecRun.keys) = 3
    /\ now < vecRun.first + vecRun.svc.cacheTtlMs

\* C14: a call on a service constructed with enableCache = false gets a
\* miss, asks the backend (query its index, getRelevantContext the three
\* indexes) and leaves the Map as it was; on every Map that is reached its
\* getCached misses and deletes nothing, and its setCached writes nothing.
C14_DisabledLeavesCache ==
    /\ (VectorCalled /\ ~vecLast.svc.enableCache) =>
           /\ ~vecLast.got.hit
           /\ ~vecLast.changed
           /\ ~vecLast.set
           /\ vecLast.op = "query" => Cardinality(vecLast.asked) = 1
           /\ vecLast.op = "context" =>
                  vecLast.asked = {IndexTypes[i] : i \in 1..3}
    /\ \A svc \in VectorServices \ CachingServices, key \in MapKeys(vectorCache) :
           /\ getCached(vectorCache, svc, key, now) = [got |-> Miss, cache |-> vectorCache]
           /\ setCached(vectorCache, svc, key, << >>, now) = vectorCache

\* A service with the cache disabled was asked for a key that the Map
\* holds unexpired.
C14_Witness ==
    /\ VectorCalled /\ ~vecLast.svc.enableCache
    /\ vecLast.found # NoEntry
    /\ vecLast.t < vecLast.found.expiresAt
    /\ vecLast.asked # {}

----------------------------------------------------------------------------
(* Properties of the cache key of query.                                   *)

\* The property names of an object, as a set.
KeySet(value) == {value.entries[i].key : i \in 1..Len(value.entries)}

\* Two values hold the same data: objects the same properties with the same
\* values whatever their insertion order, arrays the same elements at the
\* same positions.
RECURSIVE JsonSame(_, _)
JsonSame(v, w) ==
    IF v.type # w.type THEN FALSE
    ELSE IF v.type = "array"
    THEN /\ Len(v.items) = Len(w.items)
         /\ \A i \in 1..Len(v.items) : JsonSame(v.items[i], w.items[i])
    ELSE IF v.type = "object"
    THEN /\ KeySet(v) = KeySet(w)
         /\ \A k \in KeySet(v) : JsonSame(Property(v, k), Property(w, k))
    ELSE v = w

\* The same, but for the order of the elements of arrays.
RECURSIVE JsonSameReordered(_, _)
JsonSameReordered(v, w) ==
    IF v.type # w.type THEN FALSE
    ELSE IF v.type = "array"
    THEN /\ Len(v.items) = Len(w.items)
         /\ \E p \in [1..Len(v.items) -> 1..Len(v.items)] :
                /\ \A i, j \in 1..Len(v.items) : p[i] = p[j] => i = j
                /\ \A i \in 1..Len(v.items) : JsonSameReordered(v.items[i], w.items[p[i]])
    ELSE IF v.type = "object"
    THEN /\ KeySet(v) = KeySet(w)
         /\ \A k \in KeySet(v) : JsonSameReordered(Property(v, k), Property(w, k))
    ELSE v = w

KeysBuilt == Len(keyCalls.keys) = 2

SameButFilter ==
    /\ keyCalls.args[1].indexType = keyCalls.args[2].indexType
    /\ keyCalls.args[1].queryText = keyCalls.args[2].queryText

\* C15: two query calls with equal indexType, queryText, topK and minScore
\* build the same cache key when their filters hold the same properties
\* with the same values, whatever the insertion order at each level, and
\* different keys when the filters differ only in the order of the elements
\* of an array.
C15_KeyIgnoresPropertyOrder ==
    (KeysBuilt /\ SameButFilter) =>
        LET f == keyCalls.args[1].filter
            g == keyCalls.args[2].filter
        IN /\ JsonSame(f, g) => keyCalls.keys[1] = keyCalls.keys[2]
           /\ (~JsonSame(f, g) /\ JsonSameReordered(f, g)) =>
                  keyCalls.keys[1] # keyCalls.keys[2]

\* The keys were built for { a: { x, y }, b } and { b, a: { y, x } }.
C15_Witness ==
    /\ KeysBuilt /\ SameButFilter
    /\ keyCalls.args[1].filter.type = "object"
    /\ keyCalls.args[2].filter.type = "object"
    /\ JsonSame(keyCalls.args[1].filter, keyCalls.args[2].filter)
    /\ ObjectKeys(keyCalls.args[1].filter) = <<"a", "b">>
    /\ ObjectKeys(keyCalls.args[2].filter) = <<"b", "a">>
    /\ Property(keyCalls.args[1].filter, "a").type = "object"
    /\ Property(keyCalls.args[1].filter, "a") # Property(keyCalls.args[2].filter, "a")

----------------------------------------------------------------------------
(* Properties of the gateway cache key.                                    *)

BothSent == Len(gateway.sent) = 2

\* C16: two streamViaGateway calls whose digests succeed derive the same
\* key exactly when they have the same model and the same sequence of
\* { role, content } messages: a different content, order or model gives a
\* different key, a different cacheTtl does not.
C16_KeyOfModelAndMessages ==
    (/\ BothSent
     /\ ~gateway.inputs[1].digestThrows
     /\ ~gateway.inputs[2].digestThrows) =>
        (gateway.sent[1].cacheKey = gateway.sent[2].cacheKey
            <=> /\ gateway.inputs[1].model = gateway.inputs[2].model
                /\ gateway.inputs[1].messages = gateway.inputs[2].messages)

\* Two chats of the same two messages in the two orders, with one model.
C16_Witness ==
    /\ BothSent
    /\ ~gateway.inputs[1].digestThrows /\ ~gateway.inputs[2].digestThrows
    /\ gateway.inputs[1].model = gateway.inputs[2].model
    /\ Len(gateway.inputs[1].messages) = 2
    /\ gateway.inputs[1].messages[1] # gateway.inputs[1].messages[2]
    /\ gateway.inputs[2].messages =
           <<gateway.inputs[1].messages[2], gateway.inputs[1].messages[1]>>
    /\ gateway.sent[1].cacheKey # gateway.sent[2].cacheKey

\* C17: when the digest throws the key is the empty string and the request
\* is still sent, with cf-aig-cache-ttl and without cf-aig-cache-key; the
\* request carries cf-aig-cache-key exactly when the key is not empty, and
\* then it is the key.
C17_NoKeyNoHeader ==
    \A n \in 1..Len(gateway.sent) :
        LET i == gateway.inputs[n]
            headers == gateway.sent[n].request.headers
        IN /\ i.digestThrows =>
                  /\ gateway.sent[n].cacheKey = << >>
                  /\ ~headers.hasCacheKey
           /\ headers.cfAigCacheTtl =
                  <<ToString(IF i.cacheTtl = Undefined THEN 3600 ELSE i.cacheTtl)>>
           /\ headers.hasCacheKey <=> gateway.sent[n].cacheKey # << >>
           /\ headers.hasCacheKey => headers.cfAigCacheKey = gateway.sent[n].cacheKey
           /\ ~i.digestThrows => gateway.sent[n].cacheKey # << >>
           /\ gateway.sent[n].request.body.messages = i.messages

\* A request was sent although the digest threw.
C17_Witness ==
    /\ Len(gateway.sent) >= 1
    /\ gateway.inputs[1].digestThrows
    /\ gateway.inputs[1].messages # << >>
    /\ gateway.sent[1].request.method = "POST"

----------------------------------------------------------------------------
(* Properties of concurrent consume calls on the service without storage.  *)

\* The calls for an identifier that have passed their first await.
Resumed(identifier) ==
    {i \in 1..Len(tasks) : tasks[i].identifier = identifier /\ tasks[i].pc # "getEntry"}

\* The object stored for an identifier, Null when there is none.
StoredObject(identifier) ==
    IF MapHas(memoryObjects, Key(identifier))
    THEN objects[memoryObjects[MapIndex(memoryObjects, Key(identifier))].value]
    ELSE Null

\* C20: on the service without storage, when every call for an identifier
\* that has passed its first await had got null from getEntry, each of them
\* wrote a new entry over what the others had written: with limit >= 1 all
\* of them are allowed, each with remaining = limit - 1, and the stored
\* count is 1 however many they are.
C20_LastWriteWins ==
    \A identifier \in Identifiers :
        (/\ Resumed(identifier) # {}
         /\ \A i \in Resumed(identifier) : tasks[i].found = NoRef
         /\ options.limit >= 1
         /\ StoredObject(identifier) # Null) =>
            /\ StoredObject(identifier).count = 1
            /\ \A i \in Resumed(identifier) :
                   /\ tasks[i].allowed
                   /\ tasks[i].pc = "done" =>
                          /\ tasks[i].result.allowed
                          /\ tasks[i].result.remaining = options.limit - 1

\* Two calls for one identifier, started at the same time with nothing
\* stored, have both returned allowed, and the stored count is 1.
C20_Witness ==
    \E i, j \in 1..Len(tasks) :
        /\ i < j
        /\ tasks[i].identifier = tasks[j].identifier
        /\ tasks[i].now = tasks[j].now
        /\ tasks[i].found = NoRef /\ tasks[j].found = NoRef
        /\ tasks[i].pc = "done" /\ tasks[j].pc = "done"
        /\ tasks[i].result.allowed /\ tasks[j].result.allowed
        /\ options.limit >= 2
        /\ StoredObject(tasks[i].identifier) # Null
        /\ StoredObject(tasks[i].identifier).count = 1

\* The calls that got the object from getEntry within its window and have
\* passed their first await.
FoundBy(object) ==
    {i \in 1..Len(tasks) : /\ tasks[i].found = object
                           /\ tasks[i].now < objects[object].reset
                           /\ tasks[i].pc # "getEntry"}

\* Whether a call that has passed its first await is allowed.
AllowedOf(i) ==
    IF tasks[i].pc = "done" THEN tasks[i].result.allowed ELSE tasks[i].allowed

\* The count of an entry when the call that made it has stored it.
FirstCount == Min(options.limit, 1)

\* C28: on the service without storage no increment of a stored entry is
\* lost, however the calls that found it are interleaved at their awaits:
\* when n calls that got the entry from getEntry before its reset have
\* passed their first await, its count is min(limit, count before them + n), and as many of
\* them are allowed as when they run one after the other, which is
\* min(n, limit - count before them).
C28_NoLostIncrement ==
    \A object \in 1..Len(objects) :
        LET n == Cardinality(FoundBy(object))
        IN /\ objects[object].count = Min(options.limit, FirstCount + n)
           /\ Cardinality({i \in FoundBy(object) : AllowedOf(i)})
                  = Min(n, options.limit - FirstCount)

\* Two calls found the stored entry, were both resumed before either
\* returned, and both were allowed: each reports the remaining quota after
\* both increments, and the stored count includes both.
C28_Witness ==
    \E i, j \in 1..Len(tasks) :
        /\ i < j
        /\ tasks[i].found # NoRef
        /\ tasks[i].found = tasks[j].found
        /\ tasks[i].pc = "done" /\ tasks[j].pc = "done"
        /\ tasks[i].result.allowed /\ tasks[j].result.allowed
        /\ tasks[i].result.remaining = tasks[j].result.remaining
        /\ StoredObject(tasks[i].identifier) = objects[tasks[i].found]
        /\ objects[tasks[i].found].count = 3

----------------------------------------------------------------------------
(* Properties of UserSession.onMessage.                                    *)

\* The CalendarService methods called for the message so far.
CalendarCalls == {i \in 1..Len(session.log) : session.log[i].call \in CalendarMethods}

\* The consume calls made for the message so far.
ConsumeCalls == {i \in 1..Len(session.log) : session.log[i].call = "consume"}

\* C21: when the get or the put of the session's storage rejects during
\* consume, consume rejects and returns no result (none with allowed =
\* true); onMessage catches the rejection, broadcasts one message of type
\* error, and calls no CalendarService method for the message.
C21_StorageFailureFailsClosed ==
    session.fault =>
        /\ session.threw
        /\ ~session.rate.allowed
        /\ session.rate = NoResult
        /\ session.pc = "done"
        /\ Len(session.sent) = 1
        /\ session.sent[1].type = "error"
        /\ CalendarCalls = {}

\* A storage operation rejected while a calendar.create message was
\* handled, on a session that already held an entry of the limiter.
C21_Witness ==
    /\ session.fault
    /\ session.threw
    /\ session.data = "calendar.create"
    /\ Key(CalendarIdentifier) \in DOMAIN storage
    /\ session.sent = <<ErrorMessage(<<"storage failure">>)>>

\* C23: for every message that JSON.parse accepts, consume has been called
\* exactly once, with 'calendar:default' and { limit: 60, windowMs: 60000,
\* blockDurationMs: 10000 }, before any CalendarService method is called,
\* and at most one method is called; when consume denies, one message of type
\* error with the seconds of retryAfter is broadcast and no CalendarService
\* method is called.
C23_ConsumeBeforeCalendar ==
    (session.pc # "idle" /\ session.data # "") =>
        /\ ConsumeCalls = {1}
        /\ session.log[1].arguments = <<"calendar:default",
               [limit |-> 60, windowMs |-> 60000, blockDurationMs |-> 10000]>>
        /\ Cardinality(CalendarCalls) <= 1
        /\ (CalendarCalls # {}) => (~session.threw /\ session.rate.allowed)
        /\ (~session.threw /\ ~session.rate.allowed) =>
               /\ session.pc = "done"
               /\ CalendarCalls = {}
               /\ session.rate.retryAfter # Undefined
               /\ session.sent = <<[type |-> "error",
                                    error |-> <<"Too many calendar actions. Try again in ",
                                                session.rate.retryAfter, "s.">>]>>

\* The sixty-first calendar.delete of a window is denied with a retry of ten
\* seconds, and a call five seconds later with a retry of five.
C23_Witness ==
    /\ session.data = "calendar.delete"
    /\ session.pc = "done"
    /\ ~session.threw
    /\ ~session.rate.allowed
    /\ session.rate.retryAfter = 5
    /\ storage[Key(CalendarIdentifier)].count = 60

----------------------------------------------------------------------------
(* Properties of the units of quota behind failed work.                    *)

\* A Map as the function from its keys to their values.
AsFunction(m) == [k \in MapKeys(m) |-> MapGet(m, k)]

\* Between two states of a store no count of a key it keeps has gone down,
\* unless the window of the key was over at t and a later one has started.
CountsKept(before, after, t) ==
    \A k \in DOMAIN before \cap DOMAIN after :
        after[k].count < before[k].count =>
            /\ t >= before[k].reset
            /\ after[k].reset > before[k].reset

\* The count stored for an identifier once a call at t in the window of
\* `pre` has been counted.
CountedOnce(pre, t) == IF pre # Null /\ t < pre.reset THEN pre.count + 1 ELSE 1

\* C22: no step of the system takes a unit back.  A request whose
\* rate-limit check passed and whose work threw (status 500) leaves the
\* count of its identifier one above what the window held before it (1 in a
\* fresh window); a CalendarService method that throws leaves the storage of
\* the session as consume wrote it; and the count of a key that stays stored
\* goes down only when a fresh window starts.
C22_NoRefund ==
    [][/\ CountsKept(AsFunction(memoryCache), AsFunction(memoryCache'), now)
       /\ CountsKept(storage, storage', now)
       /\ (served' = served + 1 /\ http'.executed /\ http'.status = 500) =>
              LET key == Key(<<http'.bucket, http'.client>>)
              IN /\ MapHas(memoryCache', key)
                 /\ MapGet(memoryCache', key).count = CountedOnce(MapGet(memoryCache, key), now)
       /\ (session.pc = "calendar" /\ session'.pc = "done"
             /\ session'.sent[1].type = "error") =>
              /\ storage' = storage
              /\ Key(CalendarIdentifier) \in DOMAIN storage'
              /\ storage'[Key(CalendarIdentifier)].count
                     = CalendarOptions.limit - session.rate.remaining
      ]_vars

\* The second request of a client to /api/crawl in a window has thrown: it is
\* answered 500 and the count of the client is 2.
C22_Witness ==
    /\ http.bucket = "crawl"
    /\ http.executed
    /\ http.status = 500
    /\ MapHas(memoryCache, Key(<<"crawl", http.client>>))
    /\ MapGet(memoryCache, Key(<<"crawl", http.client>>)).count = 2

----------------------------------------------------------------------------
(* Properties of the setCached of a query that resumes after its awaits.   *)

\* The keys of a Map in insertion order.
KeyOrder(m) == [i \in 1..Len(m) |-> m[i].key]

\* The step is the setCached of a query call on a service with the cache
\* enabled (QueryFinish).
SetCachedStep == inFlight' # inFlight /\ inFlight' \subseteq inFlight /\ vecLast'.svc.enableCache

\* The keys a step has removed from the vector cache.
RemovedKeys == (MapKeys(vectorCache) \cup {vecLast'.key}) \ MapKeys(vectorCache')

\* At most one key is removed by a setCached, the first of the Map it found,
\* and the keys that stay keep their order, a new key coming last.
EvictsFirstInOrder ==
    /\ Cardinality(RemovedKeys) <= 1
    /\ (RemovedKeys # {} /\ vectorCache # << >>) => RemovedKeys = {vectorCache[1].key}
    /\ KeyOrder(vectorCache') =
           SelectSeq(IF MapHas(vectorCache, vecLast'.key)
                     THEN KeyOrder(vectorCache)
                     ELSE Append(KeyOrder(vectorCache), vecLast'.key),
                     LAMBDA k : k \notin RemovedKeys)

----------------------------------------------------------------------------
(* Properties of the size cap of memoryCache.                              *)

\* The key of the consume call of a step: that of the caller of Spec, or
\* that of the HTTP request.
ConsumedKey ==
    IF last' # last THEN Key(last'.identifier) ELSE Key(<<http'.bucket, http'.client>>)

\* The keys a step has removed from memoryCache.
EvictedKeys == MapKeys(memoryCache) \ MapKeys(memoryCache')

----------------------------------------------------------------------------
(* Properties of the window of an identifier.                              *)

\* What store s holds for an identifier in the stores (st, mc).
StoredIn(st, mc, s, identifier) ==
    IF s = "durable"
    THEN IF Key(identifier) \in DOMAIN st THEN st[Key(identifier)] ELSE Null
    ELSE MapGet(mc, Key(identifier))

\* C26: the window is fixed.  A consume call that finds an entry stored
\* either returns and leaves stored the reset it found, whether it is
\* allowed, denied by a running block, or denied with a new blockUntil, or
\* starts a fresh window, which it does only when the window it found is
\* over and no block runs; the reset of a fresh window is the time of the
\* call plus windowMs, and every result of a window reports the reset made
\* by its first call.
C26_FixedWindow ==
    [][last' # last =>
          \A s \in Active :
              LET pre  == last'.pre[s]
                  r    == last'.res[s]
                  post == StoredIn(storage', memoryCache', s, last'.identifier)
                  w    == win'[s][last'.identifier]
              IN /\ w.reset = r.reset
                 /\ w.reset = w.first + options.windowMs
                 /\ post # Null => post.reset = r.reset
                 /\ IF pre = Null
                    THEN r.reset = now + options.windowMs
                    ELSE IF r.reset # pre.reset
                    THEN /\ now >= pre.reset
                         /\ ~(Truthy(pre.blockUntil) /\ now < pre.blockUntil)
                         /\ r.reset = now + options.windowMs
                    ELSE /\ w.first = win[s][last'.identifier].first
                         /\ post # Null
      ]_vars

\* A call after the end of a block, later than the first call of its
\* window, was denied with a new blockUntil, and the stored reset is still
\* that of the first call.
C26_Witness ==
    \E s \in Stores :
        /\ Called(s)
        /\ ~last.res[s].allowed
        /\ last.pre[s] # Null
        /\ Truthy(last.pre[s].blockUntil)
        /\ last.t >= last.pre[s].blockUntil
        /\ LastStored(s).blockUntil = last.t + ConfiguredPenalty
        /\ LastStored(s).reset = last.pre[s].reset
        /\ LastStored(s).reset = LastWindow(s).first + options.windowMs
        /\ last.t > LastWindow(s).first

\* The last time the clock of SpecLive shows.
LiveHorizon == MaxLiveTicks * 500

\* The last call was for the identifier and store s denied (allowed) it.
DeniedLast(s, identifier) ==
    s \in Active /\ last.identifier = identifier /\ ~last.res[s].allowed

AllowedLast(s, identifier) ==
    s \in Active /\ last.identifier = identifier /\ last.res[s].allowed

\* C27: no identifier is denied forever.  With limit >= 1, whenever a call
\* for the identifier is denied and the clock can still pass the end of the
\* window and of any block set in it, a later call for that identifier is
\* allowed, whenever the client calls in between.
C27_NoDenialForever ==
    \A s \in Stores :
        (/\ DeniedLast(s, LiveIdentifier)
         /\ options.limit >= 1
         /\ last.res[s].reset + Penalty(options) <= LiveHorizon)
            ~> AllowedLast(s, LiveIdentifier)

\* A call made at the very end of a block that was set in a window now over
\* is allowed.
C27_Witness ==
    \E s \in Stores :
        /\ Called(s)
        /\ last.res[s].allowed
        /\ last.pre[s] # Null
        /\ Truthy(last.pre[s].blockUntil)
        /\ last.t = last.pre[s].blockUntil
        /\ options.limit >= 1
        /\ last.pre[s].reset + Penalty(options) <= LiveHorizon

----------------------------------------------------------------------------
(* Properties of useWebSocket.                                             *)

\* The sockets of the effect that are open or connecting.
LiveSockets ==
    {i \in 1..Len(effect.sockets) : effect.sockets[i].readyState \in {"CONNECTING", "OPEN"}}

\* C29: once the cleanup of the effect has run, the effect has created no
\* further WebSocket, no reconnect is scheduled, and none of its sockets is
\* open or connecting.
C29_CleanupLeavesNothing ==
    effect.isUnmounted =>
        /\ Len(effect.sockets) = effect.createdAtCleanup
        /\ ~effect.pending
        /\ LiveSockets = {}

----------------------------------------------------------------------------
(* Properties of AIChatRoom.sendAIResponse.                                *)

\* Where room.sent holds a message of the type with the id.
SentAt(type, id) ==
    {n \in 1..Len(room.sent) : room.sent[n].type = type /\ room.sent[n].id = id}

\* The response ids whose sendAIResponse has ended.
Answered == {id \in 1..room.responseId : id < room.responseId \/ room.pc = "done"}

\* C30: for every response id, at most one message.complete is broadcast
\* and no message.stream with the id follows it; when sendAIResponse has
\* ended without an exception of the INSERT leaving it, exactly one
\* message.complete has been broadcast, whether the response was streamed,
\* was a string, or the AI call or a read of the stream failed.
C30_OneCompleteAfterChunks ==
    \A id \in 1..room.responseId :
        /\ Cardinality(SentAt("message.complete", id)) <= 1
        /\ \A c \in SentAt("message.complete", id) :
               \A m \in SentAt("message.stream", id) : m < c
        /\ (id \in Answered /\ id \notin room.escaped) =>
               Cardinality(SentAt("message.complete", id)) = 1

\* A read of the stream failed after two chunks had been broadcast, and the
\* error message was broadcast after them as the one message.complete.
C30_Witness ==
    /\ room.pc = "done"
    /\ room.path = "throws"
    /\ room.chunks = 2
    /\ room.responseId \notin room.escaped
    /\ Cardinality(SentAt("message.stream", room.responseId)) = 2
    /\ \E c \in SentAt("message.complete", room.responseId) : room.sent[c].error

====
